---- MODULE Spec2Model ----
(***************************************************************************)
(* A model of the Niagara function-call node (UNiagaraNodeFunctionCall):   *)
(* compilation of a call site against its callee graph, auto-binding of    *)
(* unconnected inputs, insertion-time cycle detection, aggregation of      *)
(* external dependency hashes and the refresh of propagated static         *)
(* switches.                                                               *)
(***************************************************************************)
EXTENDS Integers, Sequences, FiniteSets, TLC

VARIABLES
    FunctionInputNodes, \* the callee graph's input nodes, as FindInputNodes(bSort, bFilterDuplicates) returns them
    CallerInputPins,    \* the call site's input pins (GetInputPins), in pin order
    CallerOutputNodes,  \* the caller graph's ParticleSpawnScript / ParticleUpdateScript output nodes
    Compiles,           \* the outcomes of the Compile calls made since the last edit, oldest first
    StaticSwitchInputs, \* the callee graph's static switch inputs, as FindStaticSwitchInputs returns them
    ChangeId,           \* the callee graph's change id (GetChangeID)
    CachedChangeId,     \* the call site's CachedChangeId
    PropagatedStaticSwitchParameters, \* the call site's propagated static switches, in array order
    Refreshes,          \* the outcomes of the RefreshFromExternalChanges calls made since the last edit
    Graphs,             \* the graph store: every script graph's package, usages, call nodes and cached compile ids
    LastCanAdd,         \* the outcome of the last CanAddToGraph, if no node was added after it
    Gathers,            \* the outcomes of the GatherExternalDependencyData calls made since the last edit
    CallSite,           \* the node's FunctionScript, Signature, enabled state and output pins
    LastHistory,        \* the outcome of the last BuildParameterMapHistory call
    FunctionCallNodes,  \* the function call nodes of one graph: FunctionName source and FunctionDisplayName
    LastComputed,       \* the node the last ComputeNodeName ran on (0 before the first)
    MaxKeyLength,       \* FDerivedDataLimitKeyLengthWrapper::MaxKeyLength
    bDoCheck,           \* whether the build evaluates check() (DO_CHECK)
    InnerBackend,       \* the wrapped backend: whether it is writable and the payload it holds per key
    CacheCalls,         \* the outcomes of the calls made on the wrapper, oldest first
    bNeedsRefresh,      \* SSearchableTreeView::bNeedsRefresh
    bNeedsFocus,        \* SSearchableTreeView::bNeedsFocus
    Items,              \* the item list the view was constructed on (*Items)
    FilterText,         \* the raw filter text of SearchBoxFilter
    FilteredItems,      \* SSearchableTreeView::FilteredItems
    Requested,          \* the calls that asked for a refresh or the focus since the last Tick
    Ticks               \* the outcomes of the Tick calls, oldest first

CompileVars == <<FunctionInputNodes, CallerInputPins, CallerOutputNodes, Compiles>>
RefreshVars == <<StaticSwitchInputs, ChangeId, CachedChangeId, PropagatedStaticSwitchParameters, Refreshes>>
GraphVars == <<Graphs, LastCanAdd, Gathers>>
TraversalVars == <<CallSite, LastHistory>>

NameVars == <<FunctionCallNodes, LastComputed>>
CacheVars == <<MaxKeyLength, bDoCheck, InnerBackend, CacheCalls>>
ViewVars == <<bNeedsRefresh, bNeedsFocus, Items, FilterText, FilteredItems, Requested, Ticks>>
NodeVars == <<CompileVars, RefreshVars, GraphVars, TraversalVars>>
EditorVars == <<NameVars, CacheVars, ViewVars>>

vars == <<NodeVars, EditorVars>>

(***************************************************************************)
(* Bounds                                                                  *)
(***************************************************************************)
\* How many consecutive Compile calls (with no edit in between) are followed.
MaxCompiles == 2
\* The change ids the callee graph goes through: 1 .. MaxChangeId.
MaxChangeId == 2
\* How many entries PropagatedStaticSwitchParameters holds at most.
MaxPropagated == 2
\* How many consecutive RefreshFromExternalChanges calls are followed.
MaxRefreshes == 2
\* How many function call nodes a graph of the store holds at most.
MaxCallNodes == 2
\* How many consecutive GatherExternalDependencyData calls are followed.
MaxGathers == 2

(***************************************************************************)
(* Variables (FNiagaraVariable: a name and a type), literals               *)
(***************************************************************************)
VelocityVar == [Name |-> "Velocity", Type |-> "Vector"]
ScaleVar == [Name |-> "Scale", Type |-> "Float"]
MeshVar == [Name |-> "Mesh", Type |-> "DataInterface"]
DeltaTimeVar == [Name |-> "Engine.DeltaTime", Type |-> "Float"]
NoVar == [Name |-> "None", Type |-> "None"]

\* The callee inputs the model declares, in FindInputNodes' sort order.
DeclaredVars == <<VelocityVar, ScaleVar, MeshVar, DeltaTimeVar>>

\* FNiagaraTypeDefinition::GetClass() != nullptr
IsClassType(Type) == Type = "DataInterface"

\* An empty FString (no default value).
EmptyValue == ""

\* The literals a pin of the given type can hold.
LiteralsOf(Type) ==
    CASE Type = "Float" -> {"0.0", "1.0"}
      [] Type = "Vector" -> {"0,0,0", "1,1,1"}
      [] OTHER -> {}

\* FNiagaraVariable::IsEquivalent: the same name and the same type.
IsEquivalent(A, B) == A.Name = B.Name /\ A.Type = B.Type

\* FNiagaraConstants::GetEngineConstants(): the registry of system constants.
EngineConstants == {DeltaTimeVar}

(***************************************************************************)
(* The callee's input nodes (UNiagaraNodeInput)                            *)
(***************************************************************************)
\* The default literal on the input node's own input pin; EmptyValue when the
\* node has no single input pin with a usable default.
InputPinDefaultOf(Var) == IF Var = ScaleVar THEN "1.0" ELSE EmptyValue

ExposureOptionsSet ==
    {[bExposed |-> TRUE, bRequired |-> r, bCanAutoBind |-> a] : r \in BOOLEAN, a \in BOOLEAN}
    \cup {[bExposed |-> FALSE, bRequired |-> r, bCanAutoBind |-> FALSE] : r \in BOOLEAN}

InputNode(Var, Options) ==
    [Input |-> Var, ExposureOptions |-> Options, InputPinDefault |-> InputPinDefaultOf(Var)]

IsExposed(Node) == Node.ExposureOptions.bExposed
IsRequired(Node) == Node.ExposureOptions.bExposed /\ Node.ExposureOptions.bRequired
CanAutoBind(Node) == Node.ExposureOptions.bExposed /\ Node.ExposureOptions.bCanAutoBind

(***************************************************************************)
(* The caller graph: output pins a call-site pin can be linked to          *)
(***************************************************************************)
\* An upstream producer's output pin.
SourceOut == [Node |-> "Source", Var |-> NoVar, Usage |-> "Undefined"]
\* The output pin of a pass-through (reroute) node whose input is linked to SourceOut.
RerouteOut == [Node |-> "Reroute", Var |-> NoVar, Usage |-> "Undefined"]
\* The output pin (GetOutputPin(0)) of an input node made by auto-binding.
InputNodeOut(Var, Usage) == [Node |-> "Input", Var |-> Var, Usage |-> Usage]

\* What the reroute node's input pin is linked to.
RerouteLinkedTo == <<SourceOut>>

\* UNiagaraNode::TraceOutputPin: follow pass-through nodes to the true source output.
RECURSIVE TraceOutputPin(_)
TraceOutputPin(OutputPin) ==
    IF OutputPin.Node = "Reroute"
    THEN TraceOutputPin(RerouteLinkedTo[1])
    ELSE OutputPin

(***************************************************************************)
(* Pins (UEdGraphPin) of the call site                                     *)
(***************************************************************************)
\* UEdGraphSchema_Niagara::PinToNiagaraVariable: the pin's name and type.
PinToNiagaraVariable(Pin) == [Name |-> Pin.PinName, Type |-> Pin.PinType]

\* SetPinAutoGeneratedDefaultValue: the value AutogeneratedDefaultValue gets.
TypeDefaultValue(Type) ==
    CASE Type = "Float" -> "0.0"
      [] Type = "Vector" -> "0,0,0"
      [] OTHER -> EmptyValue

SetPinAutoGeneratedDefaultValue(bDefaultValueIsIgnored, Node) ==
    IF bDefaultValueIsIgnored
    THEN EmptyValue
    ELSE IF Node.InputPinDefault # EmptyValue
         THEN Node.InputPinDefault
         ELSE TypeDefaultValue(Node.Input.Type)

\* The pin AllocateDefaultPins creates for an exposed input node.
NewInputPin(Node) ==
    LET Ignored == ~(IsRequired(Node) /\ ~IsClassType(Node.Input.Type))
        Auto == SetPinAutoGeneratedDefaultValue(Ignored, Node)
    IN  [PinName |-> Node.Input.Name,
         PinType |-> Node.Input.Type,
         LinkedTo |-> <<>>,
         bNotConnectable |-> FALSE,
         bDefaultValueIsIgnored |-> Ignored,
         AutogeneratedDefaultValue |-> Auto,
         DefaultValue |-> Auto]

RECURSIVE AllocateInputPins(_)
AllocateInputPins(Nodes) ==
    IF Nodes = <<>>
    THEN <<>>
    ELSE IF IsExposed(Head(Nodes))
         THEN <<NewInputPin(Head(Nodes))>> \o AllocateInputPins(Tail(Nodes))
         ELSE AllocateInputPins(Tail(Nodes))

(***************************************************************************)
(* Static switch pins and propagated static switches                       *)
(***************************************************************************)
\* The static switch variables a callee can declare; a switch name is
\* declared once in a graph, with one type.
SwitchNames == <<"Mode", "Quality">>
SwitchTypes == {"Bool", "Int"}

\* The pin default of a static switch (TryGetPinDefaultValueFromNiagaraVariable
\* on the switch's default value).
SwitchPinDefaultValue(Var) == IF Var.Type = "Bool" THEN "false" ELSE "0"

\* FindPropagatedVariable(Variable) != nullptr
FindPropagatedVariable(Propagated, Variable) ==
    \E p \in DOMAIN Propagated :
        Propagated[p].Name = Variable.Name /\ Propagated[p].Type = Variable.Type

\* RemovePropagatedVariable: the first entry equal to the variable is removed.
RemovePropagatedVariable(Propagated, Variable) ==
    LET Hits == {p \in DOMAIN Propagated : Propagated[p] = Variable}
        First == CHOOSE p \in Hits : \A q \in Hits : p <= q
    IN  IF Hits = {}
        THEN Propagated
        ELSE SubSeq(Propagated, 1, First - 1) \o SubSeq(Propagated, First + 1, Len(Propagated))

\* The pin AllocateDefaultPins creates for a static switch input (lines 230-253).
NewSwitchPin(Var, Propagated) ==
    [PinName |-> Var.Name,
     PinType |-> Var.Type,
     LinkedTo |-> <<>>,
     bNotConnectable |-> TRUE,
     bDefaultValueIsIgnored |-> FindPropagatedVariable(Propagated, Var),
     AutogeneratedDefaultValue |-> EmptyValue,
     DefaultValue |-> SwitchPinDefaultValue(Var)]

AllocateSwitchPins(Switches, Propagated) ==
    [s \in DOMAIN Switches |-> NewSwitchPin(Switches[s], Propagated)]

\* The input pins AllocateDefaultPins creates for a call site with a script:
\* the exposed inputs, then the static switches.
AllocateDefaultInputPins(Nodes, Switches, Propagated) ==
    AllocateInputPins(Nodes) \o AllocateSwitchPins(Switches, Propagated)

(***************************************************************************)
(* The translator (FHlslNiagaraTranslator), as far as Compile drives it    *)
(***************************************************************************)
\* INDEX_NONE: the input is not provided, the callee uses its own default.
INDEX_NONE ==
    [Kind |-> "None", Node |-> "None", Source |-> NoVar, Usage |-> "Undefined",
     Value |-> EmptyValue]

\* Translator->CompilePin: a linked pin compiles its traced upstream output,
\* an unlinked pin compiles the constant its DefaultValue holds.
CompilePin(Pin) ==
    IF Len(Pin.LinkedTo) > 0
    THEN LET Traced == TraceOutputPin(Pin.LinkedTo[1])
         IN  [Kind |-> "Output", Node |-> Traced.Node, Source |-> Traced.Var,
              Usage |-> Traced.Usage, Value |-> EmptyValue]
    ELSE [Kind |-> "Constant", Node |-> "None", Source |-> PinToNiagaraVariable(Pin),
          Usage |-> "Undefined", Value |-> Pin.DefaultValue]

\* Translator->GetConstant(FunctionInputNode->Input): the input's own value.
GetConstant(Node) ==
    [Kind |-> "Constant", Node |-> "None", Source |-> Node.Input, Usage |-> "Undefined",
     Value |-> IF Node.InputPinDefault # EmptyValue
               THEN Node.InputPinDefault
               ELSE TypeDefaultValue(Node.Input.Type)]

StaleFunctionCallError == [Msg |-> "StaleFunctionCallError", Pin |-> "None"]
RequiredInputUnboundError(Pin) == [Msg |-> "RequiredInputUnboundError", Pin |-> Pin.PinName]

(***************************************************************************)
(* UNiagaraNodeFunctionCall::FindAutoBoundInput                            *)
(***************************************************************************)
NoOutputNode == [Present |-> FALSE, Outputs |-> {}]
OutputNode(Outputs) == [Present |-> TRUE, Outputs |-> Outputs]

\* CallerOutputNodeSpawn != nullptr ? CallerOutputNodeSpawn : CallerOutputNodeUpdate
CallerOutputNodeOf(OutputNodes) ==
    IF OutputNodes.Spawn.Present THEN OutputNodes.Spawn ELSE OutputNodes.Update

NotBound == [Found |-> FALSE, Var |-> NoVar, Usage |-> "Undefined"]

FindAutoBoundInputSystemConstantFirst(Node, Pin, OutputNodes) ==
    LET PinVar == PinToNiagaraVariable(Pin)
        Attrs == {A \in CallerOutputNodeOf(OutputNodes).Outputs : IsEquivalent(PinVar, A)}
    IN  IF Len(Pin.LinkedTo) > 0 \/ ~CanAutoBind(Node)
        THEN NotBound
        ELSE IF PinVar \in EngineConstants
             THEN [Found |-> TRUE, Var |-> PinVar, Usage |-> "SystemConstant"]
             ELSE IF (OutputNodes.Spawn.Present \/ OutputNodes.Update.Present) /\ Attrs # {}
                  THEN [Found |-> TRUE, Var |-> CHOOSE A \in Attrs : TRUE, Usage |-> "Attribute"]
                  ELSE NotBound

FindAutoBoundInput(Node, Pin, OutputNodes) ==
    LET PinVar == PinToNiagaraVariable(Pin)
        Attrs == {A \in CallerOutputNodeOf(OutputNodes).Outputs : IsEquivalent(PinVar, A)}
    IN  IF Len(Pin.LinkedTo) > 0 \/ ~CanAutoBind(Node)
        THEN NotBound
        ELSE IF (OutputNodes.Spawn.Present \/ OutputNodes.Update.Present) /\ Attrs # {}
             THEN [Found |-> TRUE, Var |-> CHOOSE A \in Attrs : TRUE, Usage |-> "Attribute"]
             ELSE IF PinVar \in EngineConstants
                  THEN [Found |-> TRUE, Var |-> PinVar, Usage |-> "SystemConstant"]
                  ELSE NotBound

(***************************************************************************)
(* UNiagaraNodeFunctionCall::Compile, the function-graph branch            *)
(***************************************************************************)
\* CallerInputPins.FindByPredicate(... IsEquivalent(FunctionInputNode->Input)):
\* the index of the first matching pin, 0 when there is none.
FindMatchingPin(Pins, Node) ==
    LET Matches == {k \in DOMAIN Pins : IsEquivalent(PinToNiagaraVariable(Pins[k]), Node.Input)}
    IN  IF Matches = {} THEN 0 ELSE CHOOSE k \in Matches : \A m \in Matches : k <= m

CompileMissingPinSilent(St, Node) ==
    IF ~IsExposed(Node) /\ Node.ExposureOptions.bRequired
    THEN [St EXCEPT !.Inputs = Append(@, GetConstant(Node))]
    ELSE [St EXCEPT !.Inputs = Append(@, INDEX_NONE)]

CompileMissingPinRequiredAbsent(St, Node) ==
    IF IsExposed(Node)
    THEN [St EXCEPT !.Errors = Append(@, StaleFunctionCallError),
                    !.bError = TRUE,
                    !.Inputs = Append(@, INDEX_NONE)]
    ELSE [St EXCEPT !.Inputs = Append(@, INDEX_NONE)]

\* Lines 505-523: no caller pin matches the declared input.
CompileMissingPin(St, Node) ==
    IF IsExposed(Node)
    THEN [St EXCEPT !.Errors = Append(@, StaleFunctionCallError),
                    !.bError = TRUE,
                    !.Inputs = Append(@, INDEX_NONE)]
    ELSE IF Node.ExposureOptions.bRequired
         THEN [St EXCEPT !.Inputs = Append(@, GetConstant(Node))]
         ELSE [St EXCEPT !.Inputs = Append(@, INDEX_NONE)]

\* Lines 537-544 and 551: the input node made for an auto-bound pin, the
\* pin's only link set to its output, and the pin compiled as linked.
CompileAutoBoundNeverLinked(St, k, Bound) ==
    LET CallerPin == St.Pins[k]
        PinVar == PinToNiagaraVariable(CallerPin)
    IN  [St EXCEPT
            !.NewNodes = Append(@, [Input |-> PinVar, Usage |-> Bound.Usage, FoundVar |-> Bound.Var]),
            !.Inputs = Append(@, CompilePin([CallerPin EXCEPT !.LinkedTo = <<InputNodeOut(PinVar, Bound.Usage)>>]))]

CompileAutoBoundAsParameter(St, k, Bound) ==
    LET CallerPin == St.Pins[k]
        PinVar == PinToNiagaraVariable(CallerPin)
        NewOut == InputNodeOut(PinVar, "Parameter")
        LinkedPin == [CallerPin EXCEPT !.LinkedTo = <<NewOut>>]
    IN  [St EXCEPT
            !.Pins[k] = LinkedPin,
            !.NewNodes = Append(@, [Input |-> PinVar, Usage |-> "Parameter", FoundVar |-> Bound.Var]),
            !.Inputs = Append(@, CompilePin(LinkedPin))]

CompileAutoBound(St, k, Bound) ==
    LET CallerPin == St.Pins[k]
        PinVar == PinToNiagaraVariable(CallerPin)
        NewOut == InputNodeOut(PinVar, Bound.Usage)
        LinkedPin == [CallerPin EXCEPT !.LinkedTo = <<NewOut>>]
    IN  [St EXCEPT
            !.Pins[k] = LinkedPin,
            !.NewNodes = Append(@, [Input |-> PinVar, Usage |-> Bound.Usage, FoundVar |-> Bound.Var]),
            !.Inputs = Append(@, CompilePin(LinkedPin))]

\* Lines 554-578: the pin is neither linked nor auto-bound.
CompileUnboundNeverIgnored(St, Node, CallerPin) ==
    IF IsRequired(Node)
    THEN [St EXCEPT !.Inputs = Append(@, CompilePin(CallerPin))]
    ELSE [St EXCEPT !.Inputs = Append(@, INDEX_NONE)]

CompileUnboundCalleeDefault(St, Node, CallerPin) ==
    IF IsRequired(Node)
    THEN IF CallerPin.bDefaultValueIsIgnored
         THEN [St EXCEPT !.Errors = Append(@, RequiredInputUnboundError(CallerPin)),
                         !.bError = TRUE,
                         !.Inputs = Append(@, INDEX_NONE)]
         ELSE [St EXCEPT !.Inputs = Append(@, GetConstant(Node))]
    ELSE [St EXCEPT !.Inputs = Append(@, INDEX_NONE)]

CompileUnboundOptionalInline(St, Node, CallerPin) ==
    IF CallerPin.bDefaultValueIsIgnored /\ IsRequired(Node)
    THEN [St EXCEPT !.Errors = Append(@, RequiredInputUnboundError(CallerPin)),
                    !.bError = TRUE,
                    !.Inputs = Append(@, INDEX_NONE)]
    ELSE [St EXCEPT !.Inputs = Append(@, CompilePin(CallerPin))]

CompileUnboundOptionalError(St, Node, CallerPin) ==
    IF CallerPin.bDefaultValueIsIgnored
    THEN [St EXCEPT !.Errors = Append(@, RequiredInputUnboundError(CallerPin)),
                    !.bError = TRUE,
                    !.Inputs = Append(@, INDEX_NONE)]
    ELSE IF IsRequired(Node)
         THEN [St EXCEPT !.Inputs = Append(@, CompilePin(CallerPin))]
         ELSE [St EXCEPT !.Inputs = Append(@, INDEX_NONE)]

CompileUnbound(St, Node, CallerPin) ==
    IF IsRequired(Node)
    THEN IF CallerPin.bDefaultValueIsIgnored
         THEN [St EXCEPT !.Errors = Append(@, RequiredInputUnboundError(CallerPin)),
                         !.bError = TRUE,
                         !.Inputs = Append(@, INDEX_NONE)]
         ELSE [St EXCEPT !.Inputs = Append(@, CompilePin(CallerPin))]
    ELSE [St EXCEPT !.Inputs = Append(@, INDEX_NONE)]

\* One iteration of the loop over FunctionInputNodes (lines 501-579).
CompileInputAutoBindsLinked(St, Node) ==
    LET k == FindMatchingPin(St.Pins, Node)
    IN  IF k = 0
        THEN CompileMissingPin(St, Node)
        ELSE LET CallerPin == St.Pins[k]
                 Bound == FindAutoBoundInput(Node, [CallerPin EXCEPT !.LinkedTo = <<>>], St.OutputNodes)
             IN  IF Bound.Found
                 THEN CompileAutoBound(St, k, Bound)
                 ELSE IF Len(CallerPin.LinkedTo) > 0
                      THEN [St EXCEPT !.Inputs = Append(@, CompilePin(CallerPin))]
                      ELSE CompileUnbound(St, Node, CallerPin)

CompileInput(St, Node) ==
    LET k == FindMatchingPin(St.Pins, Node)
    IN  IF k = 0
        THEN CompileMissingPin(St, Node)
        ELSE LET CallerPin == St.Pins[k]
                 bCallerLinkedTo == Len(CallerPin.LinkedTo) > 0
                 Bound == FindAutoBoundInput(Node, CallerPin, St.OutputNodes)
             IN  IF bCallerLinkedTo
                 THEN [St EXCEPT !.Inputs = Append(@, CompilePin(CallerPin))]
                 ELSE IF Bound.Found
                      THEN CompileAutoBound(St, k, Bound)
                      ELSE CompileUnbound(St, Node, CallerPin)

RECURSIVE CompileInputsAbortOnError(_, _)
CompileInputsAbortOnError(St, Nodes) ==
    IF Nodes = <<>> \/ St.bError
    THEN St
    ELSE CompileInputsAbortOnError(CompileInput(St, Head(Nodes)), Tail(Nodes))

RECURSIVE CompileInputs(_, _)
CompileInputs(St, Nodes) ==
    IF Nodes = <<>>
    THEN St
    ELSE CompileInputs(CompileInput(St, Head(Nodes)), Tail(Nodes))

\* check(InputNode && InputNode->IsExposed()) at the head of FindAutoBoundInput,
\* which Compile calls for every matched pin that has no link.
FindAutoBoundInputChecks(Nodes, Pins) ==
    \A i \in DOMAIN Nodes :
        LET k == FindMatchingPin(Pins, Nodes[i])
        IN  (k # 0 /\ Len(Pins[k].LinkedTo) = 0) => IsExposed(Nodes[i])

\* Lines 470-584, the FunctionScript branch after the deprecation warning:
\* what it leaves in the translator and in the caller graph.
CompileFunctionGraph(Nodes, Pins, OutputNodes) ==
    LET St0 == [Pins |-> Pins, OutputNodes |-> OutputNodes, Inputs |-> <<>>,
                Errors |-> <<>>, NewNodes |-> <<>>, bError |-> FALSE]
        St == CompileInputs(St0, Nodes)
    IN  [PinsBefore |-> Pins,
         PinsAfter |-> St.Pins,
         Inputs |-> St.Inputs,
         Errors |-> St.Errors,
         NewNodes |-> St.NewNodes,
         bError |-> St.bError,
         Warnings |-> <<>>,
         bReturned |-> FALSE,
         Outputs |-> <<>>,
         Events |-> <<"EnterFunctionCallNode", "ExitFunctionCallNode">>]

\* Lines 472-477: the warning of a deprecated script on an enabled node.
DeprecationWarnings(Site) ==
    IF Site.FunctionScript.bDeprecated /\ Site.bNodeEnabled
    THEN <<"DeprecationMessage">>
    ELSE <<>>

\* UNiagaraNode::CompileInputPins: every input pin is compiled; it returns
\* true when it reported that a pin failed to compile.
CompileInputPins(Pins, bInputError) ==
    [Inputs |-> [k \in DOMAIN Pins |-> CompilePin(Pins[k])],
     Errors |-> IF bInputError THEN <<[Msg |-> "InputError", Pin |-> "None"]>> ELSE <<>>,
     bError |-> bInputError]

\* The messages of DataInterfaceCDO->ValidateFunction, as diagnostics against the node.
ValidationErrors(Messages) == [m \in DOMAIN Messages |-> [Msg |-> Messages[m], Pin |-> "None"]]

\* A compile that touched neither the pins nor the translator's scopes.
CompileNothing(Pins) ==
    [PinsBefore |-> Pins, PinsAfter |-> Pins, Inputs |-> <<>>, Errors |-> <<>>,
     NewNodes |-> <<>>, bError |-> FALSE, Warnings |-> <<>>, bReturned |-> FALSE,
     Outputs |-> <<>>, Events |-> <<>>]

\* Lines 585-615, the Signature branch: the data interface's validation,
\* which returns on errors, then the input pins compiled inside the call scope.
CompileSignatureValidatesInScope(Site, Pins, Env) ==
    LET bValidate == /\ Len(Site.Signature.Inputs) > 0
                     /\ IsClassType(Site.Signature.Inputs[1].Type)
                     /\ Env.bValidateDataInterfaces
        Compiled == CompileInputPins(Pins, Env.bInputError)
    IN  IF bValidate /\ Env.ValidationMessages # <<>>
        THEN [CompileNothing(Pins) EXCEPT !.Errors = ValidationErrors(Env.ValidationMessages),
                                          !.bError = TRUE,
                                          !.bReturned = TRUE,
                                          !.Events = <<"EnterFunctionCallNode">>]
        ELSE [CompileNothing(Pins) EXCEPT !.Inputs = Compiled.Inputs,
                                          !.Errors = Compiled.Errors,
                                          !.bError = Compiled.bError,
                                          !.Events = <<"EnterFunctionCallNode", "ExitFunctionCallNode">>]

CompileSignature(Site, Pins, Env) ==
    LET bValidate == /\ Len(Site.Signature.Inputs) > 0
                     /\ IsClassType(Site.Signature.Inputs[1].Type)
                     /\ Env.bValidateDataInterfaces
        Compiled == CompileInputPins(Pins, Env.bInputError)
    IN  IF bValidate /\ Env.ValidationMessages # <<>>
        THEN [CompileNothing(Pins) EXCEPT !.Errors = ValidationErrors(Env.ValidationMessages),
                                          !.bError = TRUE,
                                          !.bReturned = TRUE]
        ELSE [CompileNothing(Pins) EXCEPT !.Inputs = Compiled.Inputs,
                                          !.Errors = Compiled.Errors,
                                          !.bError = Compiled.bError,
                                          !.Events = <<"EnterFunctionCallNode", "ExitFunctionCallNode">>]

UnknownFunctionError == [Msg |-> "UnknownFunction", Pin |-> "None"]

\* Lines 616-620: neither a script nor a valid signature.
CompileUnknownFunctionSilent(Pins) == CompileNothing(Pins)

CompileUnknownFunction(Pins) ==
    [CompileNothing(Pins) EXCEPT !.Errors = <<UnknownFunctionError>>, !.bError = TRUE]

\* Lines 622-625: Translator->FunctionCall(this, Inputs, Outputs) unless bError.
FunctionCallAlways(Out) ==
    [Out EXCEPT !.Events = Append(@, "FunctionCall"),
                !.Outputs = <<"FunctionCallOutputs">>]

FunctionCall(Out) ==
    IF ~Out.bError
    THEN [Out EXCEPT !.Events = Append(@, "FunctionCall"),
                     !.Outputs = <<"FunctionCallOutputs">>]
    ELSE Out

\* The whole call: what it leaves in the translator, in Outputs and in the caller graph.
CompileOutcome(Site, Nodes, Pins, OutputNodes, Env) ==
    IF ~Site.FunctionScript.bNull
    THEN FunctionCall([CompileFunctionGraph(Nodes, Pins, OutputNodes)
                          EXCEPT !.Warnings = DeprecationWarnings(Site)])
    ELSE IF Site.Signature.bValid
         THEN LET Out == CompileSignature(Site, Pins, Env)
              IN  IF Out.bReturned THEN Out ELSE FunctionCall(Out)
         ELSE FunctionCall(CompileUnknownFunction(Pins))

(***************************************************************************)
(* UNiagaraNodeFunctionCall::BuildParameterMapHistory                      *)
(***************************************************************************)
\* Lines 828-836: the callee graph's output node, Function before Module
\* before DynamicInput.
FindScriptOutputNode(FunctionScript) ==
    IF FunctionScript.OutputNodes.Function.Present
    THEN FunctionScript.OutputNodes.Function
    ELSE IF FunctionScript.OutputNodes.Module.Present
         THEN FunctionScript.OutputNodes.Module
         ELSE FunctionScript.OutputNodes.DynamicInput

\* Lines 844-851: the first input pin is a linked parameter map pin and the
\* traversal is recursive, so the pin's upstream parameter map is traced.
TracesParameterMap(Pins, bRecursive) ==
    /\ Len(Pins) > 0
    /\ Pins[1].LinkedTo # <<>>
    /\ Pins[1].PinType = "ParameterMap"
    /\ bRecursive

RECURSIVE MatchedPairsOfEveryOutput(_, _)
MatchedPairsOfEveryOutput(ChildPins, OutputPins) ==
    IF ChildPins = <<>>
    THEN <<>>
    ELSE SelectSeq(OutputPins, LAMBDA Out : IsEquivalent(Out, Head(ChildPins).Var))
         \o MatchedPairsOfEveryOutput(Tail(ChildPins), OutputPins)


\* Lines 865-886: the call site's output pins equivalent to a linked
\* parameter map pin of the callee's output node, in the order they are found.
RECURSIVE MatchedPairsOf(_, _)
MatchedPairsOf(ChildPins, OutputPins) ==
    IF ChildPins = <<>>
    THEN <<>>
    ELSE LET Child == Head(ChildPins)
             Matched == IF Child.bLinked /\ Child.Var.Type = "ParameterMap"
                        THEN SelectSeq(OutputPins, LAMBDA Out : IsEquivalent(Out, Child.Var))
                        ELSE <<>>
         IN  Matched \o MatchedPairsOf(Tail(ChildPins), OutputPins)

\* The same event, once for every matched pair.
Repeated(Event, Pairs) == [p \in DOMAIN Pairs |-> Event]

\* Lines 823-899, the FunctionScript branch: the calls made on OutHistory.
BuildFunctionHistoryRegistersInScope(Site, Pins, bRecursive, bTraceFound) ==
    LET ChildOutputNode == FindScriptOutputNode(Site.FunctionScript)
        bTraced == TracesParameterMap(Pins, bRecursive)
        bParamMapIdx == bTraced /\ bTraceFound
        MatchedPairs == MatchedPairsOf(ChildOutputNode.Pins, Site.OutputPins)
    IN  [bParamMapIdx |-> bParamMapIdx,
         MatchedPairs |-> MatchedPairs,
         Events |-> <<"SetStaticSwitchConstants">>
                    \o (IF bTraced THEN <<"TraceParameterMapOutputPin">> ELSE <<>>)
                    \o <<"EnterFunction">>
                    \o (IF bParamMapIdx THEN <<"BeginNodeVisitation">> ELSE <<>>)
                    \o <<"OutputNodeBuildParameterMapHistory">>
                    \o Repeated("TraceParameterMapOutputPin", MatchedPairs)
                    \o Repeated("RegisterParameterMapPin", MatchedPairs)
                    \o (IF bParamMapIdx THEN <<"EndNodeVisitation">> ELSE <<>>)
                    \o <<"ExitFunction">>]

BuildFunctionHistory(Site, Pins, bRecursive, bTraceFound) ==
    LET ChildOutputNode == FindScriptOutputNode(Site.FunctionScript)
        bTraced == TracesParameterMap(Pins, bRecursive)
        bParamMapIdx == bTraced /\ bTraceFound
        MatchedPairs == MatchedPairsOf(ChildOutputNode.Pins, Site.OutputPins)
    IN  [bParamMapIdx |-> bParamMapIdx,
         MatchedPairs |-> MatchedPairs,
         Events |-> <<"SetStaticSwitchConstants">>
                    \o (IF bTraced THEN <<"TraceParameterMapOutputPin">> ELSE <<>>)
                    \o <<"EnterFunction">>
                    \o (IF bParamMapIdx THEN <<"BeginNodeVisitation">> ELSE <<>>)
                    \o <<"OutputNodeBuildParameterMapHistory">>
                    \o Repeated("TraceParameterMapOutputPin", MatchedPairs)
                    \o (IF bParamMapIdx THEN <<"EndNodeVisitation">> ELSE <<>>)
                    \o <<"ExitFunction">>
                    \o Repeated("RegisterParameterMapPin", MatchedPairs)]

\* ScriptIsValid (lines 800-811)
ScriptIsValid(Site) == ~Site.FunctionScript.bNull \/ Site.Signature.bValid

\* A call that only routed the parameter map around the node, or did nothing
\* after Super::BuildParameterMapHistory.
RoutedHistory(bRouted) ==
    [bParamMapIdx |-> FALSE,
     MatchedPairs |-> <<>>,
     Events |-> IF bRouted THEN <<"RouteParameterMapAroundMe">> ELSE <<>>]

\* The whole call (lines 813-904): the calls made on OutHistory, after
\* Super::BuildParameterMapHistory.
BuildParameterMapHistoryDisabledLast(Site, Pins, bIgnoreDisabled, bRecursive, bTraceFound) ==
    IF ~Site.FunctionScript.bNull
    THEN BuildFunctionHistory(Site, Pins, bRecursive, bTraceFound)
    ELSE RoutedHistory((~Site.bNodeEnabled /\ bIgnoreDisabled)
                       \/ ~ScriptIsValid(Site) \/ Site.Signature.bRequiresExecPin)

BuildParameterMapHistoryOutcome(Site, Pins, bIgnoreDisabled, bRecursive, bTraceFound) ==
    IF ~Site.bNodeEnabled /\ bIgnoreDisabled
    THEN RoutedHistory(TRUE)
    ELSE IF ~Site.FunctionScript.bNull
         THEN BuildFunctionHistory(Site, Pins, bRecursive, bTraceFound)
         ELSE RoutedHistory(~ScriptIsValid(Site) \/ Site.Signature.bRequiresExecPin)

(***************************************************************************)
(* UNiagaraNodeFunctionCall::RefreshFromExternalChanges                    *)
(***************************************************************************)
\* IsValidPropagatedVariable: the callee's static switch inputs hold the variable.
IsValidPropagatedVariable(Switches, Variable) ==
    \E s \in DOMAIN Switches : Switches[s] = Variable

CleanupPropagatedSwitchValuesByName(Propagated, Switches) ==
    LET Keep(P) == P.Name # "None" /\ \E s \in DOMAIN Switches : Switches[s].Name = P.Name
    IN  SelectSeq(Propagated, Keep)

\* CleanupPropagatedSwitchValues: every entry without a name or without a
\* valid switch is removed; the others keep their order.
CleanupPropagatedSwitchValues(Propagated, Switches) ==
    LET Keep(P) == ~(P.Name = "None" \/ ~IsValidPropagatedVariable(Switches, P))
    IN  SelectSeq(Propagated, Keep)

\* Lines 726-736: for every static switch input, the first input pin of that
\* name gets its propagation status.
RECURSIVE SetPropagationStatus(_, _, _)
SetPropagationStatus(Pins, Switches, Propagated) ==
    IF Switches = <<>>
    THEN Pins
    ELSE LET InputVar == Head(Switches)
             Matches == {k \in DOMAIN Pins : Pins[k].PinName = InputVar.Name}
             First == CHOOSE k \in Matches : \A m \in Matches : k <= m
             Marked == IF Matches = {}
                       THEN Pins
                       ELSE [Pins EXCEPT ![First].bDefaultValueIsIgnored =
                                             FindPropagatedVariable(Propagated, InputVar)]
         IN  SetPropagationStatus(Marked, Tail(Switches), Propagated)

\* UNiagaraNode::ReallocatePins: the pins are allocated anew, and a new pin
\* takes the links and the edited default of the old pin of its name and type.
ReallocatedPins(OldPins, NewPins) ==
    LET OldOf(Pin) == {o \in DOMAIN OldPins : /\ OldPins[o].PinName = Pin.PinName
                                              /\ OldPins[o].PinType = Pin.PinType}
        Moved(Pin) ==
            LET Old == OldPins[CHOOSE o \in OldOf(Pin) : \A m \in OldOf(Pin) : o <= m]
            IN  [Pin EXCEPT !.LinkedTo = IF Pin.bNotConnectable THEN <<>> ELSE Old.LinkedTo,
                            !.DefaultValue = IF Old.DefaultValue # Old.AutogeneratedDefaultValue
                                                /\ ~Pin.bDefaultValueIsIgnored
                                             THEN Old.DefaultValue
                                             ELSE @]
    IN  [k \in DOMAIN NewPins |-> IF OldOf(NewPins[k]) = {} THEN NewPins[k] ELSE Moved(NewPins[k])]

ReallocatePins(OldPins, Nodes, Switches, Propagated) ==
    ReallocatedPins(OldPins, AllocateDefaultInputPins(Nodes, Switches, Propagated))

\* The whole call on a call site with a script: what it returns and what it
\* leaves in the call site.
RefreshFromExternalChangesOutcome(Nodes, Switches, Id, CachedId, Propagated, Pins) ==
    LET bReload == CachedId # Id
        Cleaned == CleanupPropagatedSwitchValues(Propagated, Switches)
        Marked == SetPropagationStatus(Pins, Switches, Cleaned)
    IN  [bReload |-> bReload,
         PropagatedBefore |-> Propagated,
         PinsBefore |-> Pins,
         Propagated |-> Cleaned,
         Pins |-> IF bReload THEN ReallocatePins(Marked, Nodes, Switches, Cleaned) ELSE Marked,
         CachedChangeId |-> IF bReload THEN Id ELSE CachedId]

(***************************************************************************)
(* The graph store: script graphs, their packages and their call nodes     *)
(***************************************************************************)
\* The script graphs of the store, by path name (GetPathName).
GraphIds == {"A", "B", "C", "D"}

\* ENiagaraScriptUsage::Function .. ENiagaraScriptUsage::DynamicInput, in enum order.
ScriptUsages == <<"Function", "Module", "DynamicInput">>

\* A graph: its package (GetOutermost), the usages it has a base id and a
\* compile hash for, the scripts its function call nodes call (in traversal
\* order), and the content its cached compile ids were built from.
Graph(Package, Usages) ==
    [Package |-> Package, Usages |-> Usages, Calls |-> <<>>, CachedCalls |-> <<>>]

\* TArray::AddUnique
AddUnique(Array, Item) ==
    IF \E i \in DOMAIN Array : Array[i] = Item THEN Array ELSE Append(Array, Item)

\* UNiagaraGraph::GetAllReferencedGraphs: the graph itself, then the graphs
\* of its function call nodes that are not collected yet, transitively.
RECURSIVE GetAllReferencedGraphs(_, _, _)
RECURSIVE GetReferencedGraphsOfCalls(_, _, _)
GetAllReferencedGraphs(G, Id, Collected) ==
    GetReferencedGraphsOfCalls(G, G[Id].Calls, AddUnique(Collected, Id))

GetReferencedGraphsOfCalls(G, Calls, Collected) ==
    IF Calls = <<>>
    THEN Collected
    ELSE IF \E i \in DOMAIN Collected : Collected[i] = Head(Calls)
         THEN GetReferencedGraphsOfCalls(G, Tail(Calls), Collected)
         ELSE GetReferencedGraphsOfCalls(G, Tail(Calls),
                                         GetAllReferencedGraphs(G, Head(Calls), Collected))

(***************************************************************************)
(* UNiagaraNodeFunctionCall::CanAddToGraph                                 *)
(***************************************************************************)
\* A function call node about to be added: its FunctionScript and its
\* FunctionScriptAssetObjectPath ("None" for nullptr and NAME_None).
CallNode(FunctionScript, AssetObjectPath) ==
    [FunctionScript |-> FunctionScript, FunctionScriptAssetObjectPath |-> AssetObjectPath]

CycleErrorMsg == "NiagaraFuncCallCannotAddToGraph"
SuperErrorMsg == "SuperCannotAddToGraph"

\* Lines 362-373: the script whose lineage is traced.
SpawningFunctionScript(Node, bAssetValid) ==
    IF Node.FunctionScriptAssetObjectPath # "None" /\ Node.FunctionScript = "None" /\ bAssetValid
    THEN Node.FunctionScriptAssetObjectPath
    ELSE Node.FunctionScript

CanAddToGraphComparesGraphs(G, Node, Target, bSuper, bAssetValid) ==
    LET Spawning == SpawningFunctionScript(Node, bAssetValid)
        FunctionGraphs == IF Spawning # "None" THEN GetAllReferencedGraphs(G, Spawning, <<>>) ELSE <<>>
    IN  IF ~bSuper
        THEN [Result |-> FALSE, OutErrorMsg |-> SuperErrorMsg, Graphs |-> G]
        ELSE IF \E i \in DOMAIN FunctionGraphs : FunctionGraphs[i] = Target
             THEN [Result |-> FALSE, OutErrorMsg |-> CycleErrorMsg, Graphs |-> G]
             ELSE [Result |-> TRUE, OutErrorMsg |-> EmptyValue, Graphs |-> G]

\* The whole call: its result, the message it leaves in OutErrorMsg (empty
\* when it sets none) and the graph store it leaves.
CanAddToGraphOutcome(G, Node, Target, bSuper, bAssetValid) ==
    LET Spawning == SpawningFunctionScript(Node, bAssetValid)
        FunctionGraphs == IF Spawning # "None" THEN GetAllReferencedGraphs(G, Spawning, <<>>) ELSE <<>>
    IN  IF ~bSuper
        THEN [Result |-> FALSE, OutErrorMsg |-> SuperErrorMsg, Graphs |-> G]
        ELSE IF \E i \in DOMAIN FunctionGraphs : G[FunctionGraphs[i]].Package = G[Target].Package
             THEN [Result |-> FALSE, OutErrorMsg |-> CycleErrorMsg, Graphs |-> G]
             ELSE [Result |-> TRUE, OutErrorMsg |-> EmptyValue, Graphs |-> G]

(***************************************************************************)
(* UNiagaraNodeFunctionCall::GatherExternalDependencyData                  *)
(***************************************************************************)
\* GetBaseId(Usage, FGuid(0,0,0,0)).IsValid() and
\* GetCompileDataHash(Usage, FGuid(0,0,0,0)).IsValid()
HasValidCompileData(G, Id, Usage) == Usage \in G[Id].Usages

\* GetCompileDataHash: the hash of the content the cached compile ids were built from.
GetCompileDataHash(G, Id, Usage) ==
    [Graph |-> Id, Usage |-> Usage, Content |-> G[Id].CachedCalls]

\* UNiagaraGraph::RebuildCachedCompileIds
RebuildCachedCompileIds(G, Id) == [G EXCEPT ![Id].CachedCalls = G[Id].Calls]

RECURSIVE GatherExternalDependencyData(_, _)
RECURSIVE GatherUsages(_, _, _)
RECURSIVE GraphGatherExternalDependencyData(_, _)

\* UNiagaraGraph::GatherExternalDependencyData: every function call node of
\* the graph, in traversal order, adds its dependencies to the same arrays.
GraphGatherExternalDependencyData(St, Calls) ==
    IF Calls = <<>>
    THEN St
    ELSE GraphGatherExternalDependencyData(GatherExternalDependencyData(St, Head(Calls)), Tail(Calls))

\* Lines 779-789: the loop over the usages.
GatherUsages(St, Id, Usages) ==
    IF Usages = <<>>
    THEN St
    ELSE IF HasValidCompileData(St.Graphs, Id, Head(Usages))
         THEN LET Added == [St EXCEPT
                               !.InReferencedCompileHashes =
                                   Append(@, GetCompileDataHash(St.Graphs, Id, Head(Usages))),
                               !.InReferencedObjs = Append(@, Id)]
              IN  GatherUsages(GraphGatherExternalDependencyData(Added, Added.Graphs[Id].Calls),
                               Id, Tail(Usages))
         ELSE GatherUsages(St, Id, Tail(Usages))

GatherRebuildsAfterReading(St, Id) ==
    LET Read == GatherUsages(St, Id, ScriptUsages)
    IN  [Read EXCEPT !.Graphs = RebuildCachedCompileIds(Read.Graphs, Id)]

\* The call of a node whose FunctionScript is the graph Id (lines 770-791).
GatherExternalDependencyData(St, Id) ==
    GatherUsages([St EXCEPT !.Graphs = RebuildCachedCompileIds(St.Graphs, Id)], Id, ScriptUsages)

\* The whole call with fresh output arrays.
GatherOutcome(G, Id) ==
    LET St == GatherExternalDependencyData(
                  [Graphs |-> G, InReferencedCompileHashes |-> <<>>, InReferencedObjs |-> <<>>], Id)
    IN  [FunctionScript |-> Id,
         bCachedCompileIdsRebuilt |-> St.Graphs # G,
         InReferencedCompileHashes |-> St.InReferencedCompileHashes,
         InReferencedObjs |-> St.InReferencedObjs,
         Graphs |-> St.Graphs]

(***************************************************************************)
(* The call site's callable (FunctionScript, Signature) and output pins    *)
(***************************************************************************)
\* The parameter map variable a module's first input and its output carry.
ParameterMapVar == [Name |-> "Map", Type |-> "ParameterMap"]

\* A pin of the callee graph's output node: its variable and whether it is linked.
ChildOutputNodePin(Var, bLinked) == [Var |-> Var, bLinked |-> bLinked]

\* An output node of the callee graph (FindOutputNode(Usage)) with its pins;
\* nullptr when the graph has no output node of the usage.
ScriptOutputNode(Pins) == [Present |-> TRUE, Pins |-> Pins]
NoScriptOutputNode == [Present |-> FALSE, Pins |-> <<>>]

\* A script: its bDeprecated flag and the output nodes of its graph by usage.
NiagaraScript(bDeprecated, OutputNodes) ==
    [bNull |-> FALSE, bDeprecated |-> bDeprecated, OutputNodes |-> OutputNodes]

\* FunctionScript == nullptr
NullScript ==
    [bNull |-> TRUE, bDeprecated |-> FALSE,
     OutputNodes |-> [Function |-> NoScriptOutputNode, Module |-> NoScriptOutputNode,
                      DynamicInput |-> NoScriptOutputNode]]

\* FNiagaraFunctionSignature, as far as the node reads it.
FunctionSignature(bValid, Inputs, bRequiresExecPin) ==
    [bValid |-> bValid, Inputs |-> Inputs, bRequiresExecPin |-> bRequiresExecPin]

InvalidSignature == FunctionSignature(FALSE, <<>>, FALSE)

\* The input pins AllocateDefaultPins creates for a call site without a
\* script (lines 267-277): the exec pin, then the signature's inputs.
AllocateSignaturePins(Signature) ==
    LET SignaturePin(Name, Type, bIgnored) ==
            [PinName |-> Name, PinType |-> Type, LinkedTo |-> <<>>, bNotConnectable |-> FALSE,
             bDefaultValueIsIgnored |-> bIgnored, AutogeneratedDefaultValue |-> EmptyValue,
             DefaultValue |-> EmptyValue]
    IN  (IF Signature.bRequiresExecPin
         THEN <<SignaturePin(EmptyValue, "ParameterMap", TRUE)>>
         ELSE <<>>)
        \o [i \in DOMAIN Signature.Inputs |->
               SignaturePin(Signature.Inputs[i].Name, Signature.Inputs[i].Type, FALSE)]

\* FGuid(): the id of no graph version (line 298).
InvalidChangeId == 0

\* The CachedChangeId AllocateDefaultPins leaves (lines 262 and 298).
AllocatedChangeIdInvalid(Site, Id) == InvalidChangeId

AllocatedChangeId(Site, Id) == IF Site.FunctionScript.bNull THEN InvalidChangeId ELSE Id

\* RefreshFromExternalChanges on a call site without a script (lines 712-715
\* and 739-744): a valid signature always reloads, and there is no called
\* graph whose static switches could be propagated.
RefreshSignatureOutcome(Site, CachedId, Propagated, Pins) ==
    LET bReload == Site.Signature.bValid
    IN  [bReload |-> bReload,
         PropagatedBefore |-> Propagated,
         PinsBefore |-> Pins,
         Propagated |-> Propagated,
         Pins |-> IF bReload
                  THEN ReallocatedPins(Pins, AllocateSignaturePins(Site.Signature))
                  ELSE Pins,
         CachedChangeId |-> IF bReload THEN InvalidChangeId ELSE CachedId]

\* A call site of a script that is not deprecated, whose graph has a
\* Function output node with a linked parameter map pin.
ScriptCallSite ==
    [FunctionScript |->
        NiagaraScript(FALSE,
                      [Function |-> ScriptOutputNode(<<ChildOutputNodePin(ParameterMapVar, TRUE)>>),
                       Module |-> NoScriptOutputNode,
                       DynamicInput |-> NoScriptOutputNode]),
     Signature |-> InvalidSignature,
     bNodeEnabled |-> TRUE,
     OutputPins |-> <<ParameterMapVar>>]

\* No BuildParameterMapHistory call to remember.
NoHistory ==
    [Done |-> FALSE, Site |-> ScriptCallSite, bIgnoreDisabled |-> FALSE, bRecursive |-> FALSE,
     bParamMapIdx |-> FALSE, MatchedPairs |-> <<>>, Events |-> <<>>]

\* The call site's callable is a script and no history was built.
TraversalIdle ==
    /\ CallSite = ScriptCallSite
    /\ LastHistory = NoHistory

(***************************************************************************)
(* UNiagaraNodeFunctionCall::ComputeNodeName                               *)
(***************************************************************************)
\* A name: a text followed, when Index is positive, by Index printed with
\* three digits ("Foo", 1 is "Foo001").
NodeName(Text, Index) == [Text |-> Text, Index |-> Index]

EmptyName == NodeName("", 0)
NoneName == NodeName("None", 0)

\* FName from an FString: the empty string is NAME_None, as "None" is.
ToName(Str) == IF Str = EmptyName THEN NoneName ELSE Str

\* A function call node: the name of its FunctionScript or Signature (empty
\* when it has neither), its FunctionDisplayName, and whether ComputeNodeName
\* ran on it.
FunctionCallNode(FunctionName, FunctionDisplayName) ==
    [FunctionName |-> FunctionName, FunctionDisplayName |-> FunctionDisplayName, bNamed |-> FALSE]

\* UNiagaraNodeFunctionCall::GetFunctionName
GetFunctionName(Node) == Node.FunctionDisplayName

\* FNiagaraUtilities::GetUniqueName: the candidate when no existing name
\* equals it, else the candidate's text without its three digits, followed by
\* the first of 001, 002, ... that makes a name not among the existing ones.
GetUniqueName(CandidateName, ExistingNames) ==
    IF CandidateName \notin ExistingNames
    THEN CandidateName
    ELSE LET Free == {i \in 0..Cardinality(ExistingNames) :
                         NodeName(CandidateName.Text, i) \notin ExistingNames}
         IN  NodeName(CandidateName.Text, CHOOSE i \in Free : \A j \in Free : i <= j)

\* Lines 1000-1009: the suggested name, when it may be used.
SuggestionAllowed(FunctionName, SuggestedName, bForceSuggestion) ==
    /\ SuggestedName # EmptyName
    /\ \/ bForceSuggestion
       \/ FunctionName = ""
       \/ SuggestedName = NodeName(FunctionName, 0)
       \/ (SuggestedName.Text = FunctionName /\ SuggestedName.Index > 0)

\* Lines 1000-1023
ProposedName(Node, SuggestedName, bForceSuggestion) ==
    LET Suggestion == IF SuggestionAllowed(Node.FunctionName, SuggestedName, bForceSuggestion)
                      THEN ToName(SuggestedName)
                      ELSE NoneName
    IN  IF Suggestion # NoneName
        THEN Suggestion
        ELSE IF Node.FunctionName # ""
             THEN NodeName(Node.FunctionName, 0)
             ELSE ToName(Node.FunctionDisplayName)

\* Lines 1025-1037: the names of the graph's other function call nodes.
NamesOfEarlierNodes(Nodes, n) ==
    {ToName(GetFunctionName(Nodes[m])) : m \in {k \in DOMAIN Nodes : k < n}}

NamesOfOtherNodes(Nodes, n) ==
    {ToName(GetFunctionName(Nodes[m])) : m \in DOMAIN Nodes \ {n}}

\* The whole call on node n: the nodes of the graph afterwards.
ComputeNodeNameOutcome(Nodes, n, SuggestedName, bForceSuggestion) ==
    LET NewName == GetUniqueName(ProposedName(Nodes[n], SuggestedName, bForceSuggestion),
                                 NamesOfOtherNodes(Nodes, n))
    IN  [Nodes EXCEPT ![n].FunctionDisplayName = NewName, ![n].bNamed = TRUE]

(***************************************************************************)
(* FDerivedDataLimitKeyLengthWrapper                                       *)
(***************************************************************************)
\* FSHA1::DigestSize, and the length of BytesToHex of a digest.
DigestSize == 20
HashStringSize == 2 * DigestSize

\* A cache key is the sequence of its characters; a payload is the sequence
\* of its bytes, and NUL is the byte that ends a C string.
NUL == "NUL"
HexDigits == <<"0", "1", "2", "3", "4", "5", "6", "7", "8", "9", "A", "B", "C", "D", "E", "F">>

CharCode(Char) == CASE Char = "a" -> 1 [] Char = "b" -> 2 [] OTHER -> 3

RECURSIVE SumOfCodes(_)
SumOfCodes(Chars) ==
    IF Chars = <<>> THEN 0 ELSE CharCode(Head(Chars)) + SumOfCodes(Tail(Chars))

\* FCrc::MemCrc32 and FSHA1 are stood for by checksums: equal inputs give
\* equal digests, and some different inputs collide.
MemCrc32(Chars) == SumOfCodes(Chars)
SHA1(Length, CRCofPayload, Chars) == Length + CRCofPayload + SumOfCodes(Chars)

\* BytesToHex: the digest in hexadecimal digits, the most significant
\* first; a checksum has no digit above the seventh place.
BytesToHex(Hash, Digits) ==
    [i \in 1..Digits |->
        IF Digits - i > 6
        THEN HexDigits[1]
        ELSE HexDigits[((Hash \div (16 ^ (Digits - i))) % 16) + 1]]

\* FString::Left
Left(Str, Count) ==
    SubSeq(Str, 1, IF Count < 0 THEN 0 ELSE IF Count > Len(Str) THEN Len(Str) ELSE Count)

\* ShortenKey (lines 217-251): the key for the inner backend, whether the
\* key was shortened, and whether the check of line 249 holds.
ShortenKey(CacheKey, MaxLength) ==
    IF Len(CacheKey) <= MaxLength
    THEN [bShortened |-> FALSE, Result |-> CacheKey, bCheck |-> TRUE]
    ELSE LET Length == Len(CacheKey)
             HashString == BytesToHex(SHA1(Length, MemCrc32(CacheKey), CacheKey), HashStringSize)
             OriginalPart == MaxLength - Len(HashString) - 2
             Result == Left(CacheKey, OriginalPart) \o <<"_", "_">> \o HashString
         IN  [bShortened |-> TRUE,
              Result |-> Result,
              bCheck |-> Len(Result) = MaxLength /\ Len(Result) > 0]

\* The inner backend (FDerivedDataBackendInterface): the payload it holds
\* per key. A put of a key it holds is skipped unless bPutEvenIfExists, and a
\* backend that is not writable keeps what it has.
InnerExists(Backend, Key) == Key \in DOMAIN Backend.Items

InnerPut(Backend, Key, Data, bPutEvenIfExists) ==
    IF ~Backend.bWritable \/ (InnerExists(Backend, Key) /\ ~bPutEvenIfExists)
    THEN Backend
    ELSE [Backend EXCEPT !.Items = [k \in DOMAIN Backend.Items \cup {Key} |->
                                       IF k = Key THEN Data ELSE Backend.Items[k]]]

InnerRemove(Backend, Key) ==
    IF ~Backend.bWritable
    THEN Backend
    ELSE [Backend EXCEPT !.Items = [k \in DOMAIN Backend.Items \ {Key} |-> Backend.Items[k]]]

\* A call the wrapper makes on the inner backend.
InnerCall(Op, Key) == [Op |-> Op, Key |-> Key]

\* The outcome of a call on the wrapper: the calls it made on the inner
\* backend, its result, OutData and the inner backend afterwards.
CacheOutcome(Calls, Result, OutData, Backend) ==
    [InnerCalls |-> Calls, Result |-> Result, OutData |-> OutData, Backend |-> Backend]

\* CachedDataProbablyExists (lines 54-65) and TryToPrefetch (lines 72-84)
ProbeCachedData(Op, Backend, CacheKey, MaxLength) ==
    LET NewKey == ShortenKey(CacheKey, MaxLength).Result
    IN  CacheOutcome(<<InnerCall(Op, NewKey)>>, InnerExists(Backend, NewKey), <<>>, Backend)

\* WouldCache (lines 89-92)
WouldCache(Backend, CacheKey, MaxLength) ==
    CacheOutcome(<<InnerCall("WouldCache", CacheKey)>>,
                 Backend.bWritable /\ ~InnerExists(Backend, CacheKey), <<>>, Backend)

\* The bytes PutCachedData appends to the data: the full key and its NUL.
KeyBytes(CacheKey) == CacheKey \o <<NUL>>

\* GetCachedData (lines 106-159)
GetCachedDataKeepsCorrupted(Backend, CacheKey, MaxLength) ==
    LET Short == ShortenKey(CacheKey, MaxLength)
        bFound == InnerExists(Backend, Short.Result)
        Found == IF bFound THEN Backend.Items[Short.Result] ELSE <<>>
        KeyLen == Len(CacheKey) + 1
        bMatch == /\ Len(Found) >= KeyLen
                  /\ SubSeq(Found, Len(Found) - KeyLen + 1, Len(Found)) = KeyBytes(CacheKey)
    IN  IF ~Short.bShortened
        THEN CacheOutcome(<<InnerCall("GetCachedData", CacheKey)>>, bFound, Found, Backend)
        ELSE CacheOutcome(<<InnerCall("GetCachedData", Short.Result)>>, bFound /\ bMatch,
                          IF bFound /\ bMatch THEN SubSeq(Found, 1, Len(Found) - KeyLen) ELSE <<>>,
                          Backend)

GetCachedData(Backend, CacheKey, MaxLength) ==
    LET Short == ShortenKey(CacheKey, MaxLength)
        bFound == InnerExists(Backend, Short.Result)
        Found == IF bFound THEN Backend.Items[Short.Result] ELSE <<>>
        KeyLen == Len(CacheKey) + 1
        bMatch == /\ Len(Found) >= KeyLen
                  /\ SubSeq(Found, Len(Found) - KeyLen + 1, Len(Found)) = KeyBytes(CacheKey)
    IN  IF ~Short.bShortened
        THEN CacheOutcome(<<InnerCall("GetCachedData", CacheKey)>>, bFound, Found, Backend)
        ELSE IF bFound /\ ~bMatch
             THEN CacheOutcome(<<InnerCall("GetCachedData", Short.Result),
                                 InnerCall("RemoveCachedData", Short.Result)>>,
                               FALSE, <<>>, InnerRemove(Backend, Short.Result))
             ELSE CacheOutcome(<<InnerCall("GetCachedData", Short.Result)>>, bFound,
                               IF bFound THEN SubSeq(Found, 1, Len(Found) - KeyLen) ELSE <<>>,
                               Backend)

\* PutCachedData (lines 167-188)
PutCachedData(Backend, CacheKey, InData, bPutEvenIfExists, MaxLength) ==
    LET Short == ShortenKey(CacheKey, MaxLength)
    IN  IF ~Backend.bWritable
        THEN CacheOutcome(<<>>, FALSE, <<>>, Backend)
        ELSE IF ~Short.bShortened
             THEN CacheOutcome(<<InnerCall("PutCachedData", CacheKey)>>, FALSE, <<>>,
                               InnerPut(Backend, CacheKey, InData, bPutEvenIfExists))
             ELSE CacheOutcome(<<InnerCall("PutCachedData", Short.Result)>>, FALSE, <<>>,
                               InnerPut(Backend, Short.Result, InData \o KeyBytes(CacheKey),
                                        bPutEvenIfExists))

\* RemoveCachedData (lines 190-199)
RemoveCachedData(Backend, CacheKey, MaxLength) ==
    LET NewKey == ShortenKey(CacheKey, MaxLength).Result
    IN  IF ~Backend.bWritable
        THEN CacheOutcome(<<>>, FALSE, <<>>, Backend)
        ELSE CacheOutcome(<<InnerCall("RemoveCachedData", NewKey)>>, FALSE, <<>>,
                          InnerRemove(Backend, NewKey))

(***************************************************************************)
(* SSearchableTreeView                                                     *)
(***************************************************************************)
\* An item has a display name, a sequence of characters, and the children
\* that OnGetChildrenDelegate gives for it.
TreeItem(Name, Children) == [Name |-> Name, Children |-> Children]

\* TTextFilter::PassesFilter over TransformElementToString: an empty filter
\* text passes every item, another one the items whose name contains it.
ContainsText(Name, Text) ==
    \E i \in 1..(Len(Name) - Len(Text) + 1) : SubSeq(Name, i, i + Len(Text) - 1) = Text

PassesFilter(Object, Text) == Text = <<>> \/ ContainsText(Object.Name, Text)

\* ConstructRow (lines 169-194): whether a child passes the filter, and
\* whether the row is added.
ChildPassesFilter(Object, Text) ==
    /\ Text # <<>>
    /\ \E i \in DOMAIN Object.Children : PassesFilter(Object.Children[i], Text)

ConstructsRow(Object, Text) == ChildPassesFilter(Object, Text) \/ PassesFilter(Object, Text)

\* Populate (lines 115-126): the filtered items, and the items it expands.
Populate(ItemList, Text) ==
    LET Added(Object) == ConstructsRow(Object, Text)
    IN  [FilteredItems |-> SelectSeq(ItemList, Added),
         Expanded |-> {ItemList[i] : i \in {j \in DOMAIN ItemList : ChildPassesFilter(ItemList[j], Text)}}]

\* Tick (lines 80-93): the flags and the filtered items after the tick, and
\* what the tick did.
TickOutcomeEveryTick(bRefresh, bFocus, ItemList, Text, Filtered) ==
    [bNeedsRefresh |-> FALSE,
     bNeedsFocus |-> FALSE,
     bPopulated |-> TRUE,
     bFocused |-> TRUE,
     FilteredItems |-> Populate(ItemList, Text).FilteredItems,
     Expanded |-> Populate(ItemList, Text).Expanded]

TickOutcome(bRefresh, bFocus, ItemList, Text, Filtered) ==
    [bNeedsRefresh |-> FALSE,
     bNeedsFocus |-> FALSE,
     bPopulated |-> bRefresh,
     bFocused |-> bFocus,
     FilteredItems |-> IF bRefresh THEN Populate(ItemList, Text).FilteredItems ELSE Filtered,
     Expanded |-> IF bRefresh THEN Populate(ItemList, Text).Expanded ELSE {}]

(***************************************************************************)
(* The editor's other subsystems at rest                                   *)
(***************************************************************************)
\* A graph without function call nodes.
NameIdle ==
    /\ FunctionCallNodes = <<>>
    /\ LastComputed = 0

\* A wrapper over an empty writable backend, on which no call was made.
CacheIdle ==
    /\ MaxKeyLength = HashStringSize + 2
    /\ bDoCheck = TRUE
    /\ InnerBackend = [bWritable |-> TRUE, Items |-> <<>>]
    /\ CacheCalls = <<>>

\* A view constructed on an empty item list (Construct, lines 41-43).
ViewIdle ==
    /\ bNeedsRefresh = TRUE
    /\ bNeedsFocus = TRUE
    /\ Items = <<>>
    /\ FilterText = <<>>
    /\ FilteredItems = <<>>
    /\ Requested = {"Construct"}
    /\ Ticks = <<>>

EditorIdle == NameIdle /\ CacheIdle /\ ViewIdle

(***************************************************************************)
(* Initial states and actions of the call-site compile                     *)
(***************************************************************************)
\* The pairs of declared inputs the callee graphs of the model have.
DeclaredPairs ==
    {<<VelocityVar, ScaleVar>>, <<VelocityVar, DeltaTimeVar>>, <<ScaleVar, MeshVar>>,
     <<MeshVar, DeltaTimeVar>>}

CalleeConfigs ==
    {<<InputNode(Pair[1], o1), InputNode(Pair[2], o2)>> :
        Pair \in DeclaredPairs, o1 \in ExposureOptionsSet, o2 \in ExposureOptionsSet}

\* FindInputNodes returns the input nodes sorted and without duplicates.
IsSortedWithoutDuplicates(Nodes) ==
    \A a \in DOMAIN Nodes, b \in DOMAIN Nodes :
        a < b => \E i \in DOMAIN DeclaredVars, j \in DOMAIN DeclaredVars :
                    i < j /\ Nodes[a].Input = DeclaredVars[i] /\ Nodes[b].Input = DeclaredVars[j]

CallerGraphConfigs ==
    {[Spawn |-> NoOutputNode, Update |-> NoOutputNode],
     [Spawn |-> OutputNode({VelocityVar, DeltaTimeVar}), Update |-> NoOutputNode],
     [Spawn |-> OutputNode({}), Update |-> OutputNode({VelocityVar, DeltaTimeVar})],
     [Spawn |-> NoOutputNode, Update |-> OutputNode({VelocityVar})],
     [Spawn |-> OutputNode({[Name |-> "Velocity", Type |-> "Float"]}), Update |-> NoOutputNode]}

\* No CanAddToGraph call to remember.
NoCanAdd ==
    [Done |-> FALSE, Node |-> CallNode("None", "None"), Target |-> "None", bSuper |-> FALSE,
     bAssetValid |-> FALSE, Result |-> FALSE, OutErrorMsg |-> EmptyValue,
     GraphsBefore |-> <<>>]

\* A store of graphs without function call nodes, every graph in a package
\* of its own and with one usage.
SeparateGraphs ==
    [Id \in GraphIds |->
        Graph(Id, CASE Id = "A" -> {"Module"}
                    [] Id = "C" -> {"DynamicInput"}
                    [] OTHER -> {"Function"})]

\* The call site under compilation calls a script without static switches;
\* no refresh has been made.
RefreshIdle ==
    /\ StaticSwitchInputs = <<>>
    /\ ChangeId = 1
    /\ CachedChangeId = ChangeId
    /\ PropagatedStaticSwitchParameters = <<>>
    /\ Refreshes = <<>>

GraphIdle ==
    /\ Graphs = SeparateGraphs
    /\ LastCanAdd = NoCanAdd
    /\ Gathers = <<>>

Init ==
    /\ TraversalIdle
    /\ EditorIdle
    /\ FunctionInputNodes \in {c \in CalleeConfigs : IsSortedWithoutDuplicates(c)}
    /\ RefreshIdle
    /\ CallerInputPins = AllocateDefaultInputPins(FunctionInputNodes, StaticSwitchInputs,
                                                  PropagatedStaticSwitchParameters)
    /\ CallerOutputNodes \in CallerGraphConfigs
    /\ Compiles = <<>>
    /\ GraphIdle

\* What a compile meets outside the node: whether data interfaces are
\* validated (GetValidateDataInterfaces), the validator's messages and
\* whether CompileInputPins fails. Only the Signature branch reads them.
CompileEnvs(Site) ==
    IF Site.FunctionScript.bNull /\ Site.Signature.bValid
    THEN [bValidateDataInterfaces : BOOLEAN,
          ValidationMessages : {<<>>, <<"Invalid1">>, <<"Invalid1", "Invalid2">>},
          bInputError : BOOLEAN]
    ELSE {[bValidateDataInterfaces |-> FALSE, ValidationMessages |-> <<>>, bInputError |-> FALSE]}

\* UNiagaraNodeFunctionCall::Compile
Compile ==
    /\ UNCHANGED <<TraversalVars, EditorVars>>
    /\ Len(Compiles) < MaxCompiles
    /\ ~CallSite.FunctionScript.bNull
       => FindAutoBoundInputChecks(FunctionInputNodes, CallerInputPins)
    /\ \E Env \in CompileEnvs(CallSite) :
          LET Outcome == CompileOutcome(CallSite, FunctionInputNodes, CallerInputPins,
                                        CallerOutputNodes, Env)
          IN  /\ Compiles' = Append(Compiles, Outcome)
              /\ CallerInputPins' = Outcome.PinsAfter
    /\ UNCHANGED <<FunctionInputNodes, CallerOutputNodes, RefreshVars, GraphVars>>

\* UNiagaraNodeFunctionCall::AllocateDefaultPins on a call site without pins
\* (the pins are rebuilt from the callee's current inputs and static switches).
AllocateDefaultPins ==
    /\ UNCHANGED <<TraversalVars, EditorVars>>
    /\ CallerInputPins' =
          IF CallSite.FunctionScript.bNull
          THEN AllocateSignaturePins(CallSite.Signature)
          ELSE AllocateDefaultInputPins(FunctionInputNodes, StaticSwitchInputs,
                                        PropagatedStaticSwitchParameters)
    /\ CachedChangeId' = AllocatedChangeId(CallSite, ChangeId)
    /\ (CallerInputPins' # CallerInputPins \/ CachedChangeId' # CachedChangeId)
    /\ Compiles' = <<>>
    /\ UNCHANGED <<FunctionInputNodes, CallerOutputNodes, StaticSwitchInputs, ChangeId,
                   PropagatedStaticSwitchParameters, Refreshes, GraphVars>>

\* The callee's author changes an input node's exposure options.
SetExposureOptions ==
    /\ UNCHANGED <<TraversalVars, EditorVars>>
    /\ ChangeId < MaxChangeId
    /\ \E i \in DOMAIN FunctionInputNodes, o \in ExposureOptionsSet :
          /\ o # FunctionInputNodes[i].ExposureOptions
          /\ FunctionInputNodes' = [FunctionInputNodes EXCEPT ![i].ExposureOptions = o]
    /\ ChangeId' = ChangeId + 1
    /\ Compiles' = <<>>
    /\ UNCHANGED <<CallerInputPins, CallerOutputNodes, StaticSwitchInputs, CachedChangeId,
                   PropagatedStaticSwitchParameters, Refreshes, GraphVars>>

\* The caller's author links an input pin to an upstream output pin.
MakeLinkTo ==
    /\ UNCHANGED <<TraversalVars, EditorVars>>
    /\ \E k \in DOMAIN CallerInputPins, Out \in {SourceOut, RerouteOut} :
          /\ ~CallerInputPins[k].bNotConnectable
          /\ CallerInputPins[k].LinkedTo # <<Out>>
          /\ CallerInputPins' = [CallerInputPins EXCEPT ![k].LinkedTo = <<Out>>]
    /\ Compiles' = <<>>
    /\ UNCHANGED <<FunctionInputNodes, CallerOutputNodes, RefreshVars, GraphVars>>

\* UEdGraphPin::BreakAllPinLinks by the caller's author.
BreakAllPinLinks ==
    /\ UNCHANGED <<TraversalVars, EditorVars>>
    /\ \E k \in DOMAIN CallerInputPins :
          /\ CallerInputPins[k].LinkedTo # <<>>
          /\ CallerInputPins' = [CallerInputPins EXCEPT ![k].LinkedTo = <<>>]
    /\ Compiles' = <<>>
    /\ UNCHANGED <<FunctionInputNodes, CallerOutputNodes, RefreshVars, GraphVars>>

\* The caller's author types an inline literal into a pin that shows one.
SetPinDefaultValue ==
    /\ UNCHANGED <<TraversalVars, EditorVars>>
    /\ \E k \in DOMAIN CallerInputPins :
       \E v \in LiteralsOf(CallerInputPins[k].PinType) :
          /\ ~CallerInputPins[k].bDefaultValueIsIgnored
          /\ CallerInputPins[k].DefaultValue # v
          /\ CallerInputPins' = [CallerInputPins EXCEPT ![k].DefaultValue = v]
    /\ Compiles' = <<>>
    /\ UNCHANGED <<FunctionInputNodes, CallerOutputNodes, RefreshVars, GraphVars>>

Next ==
    \/ Compile
    \/ AllocateDefaultPins
    \/ SetExposureOptions
    \/ MakeLinkTo
    \/ BreakAllPinLinks
    \/ SetPinDefaultValue

Spec == Init /\ [][Next]_vars

(***************************************************************************)
(* Initial states and actions of the graph store                           *)
(***************************************************************************)
\* The call site is not compiled while the store is edited.
CompileIdle ==
    /\ FunctionInputNodes = <<>>
    /\ CallerInputPins = <<>>
    /\ CallerOutputNodes = [Spawn |-> NoOutputNode, Update |-> NoOutputNode]
    /\ Compiles = <<>>

\* The stores the authors start from: every graph in a package of its own,
\* the same with a graph that has several usages, and two graphs in one package.
InitialGraphStores ==
    {SeparateGraphs,
     [SeparateGraphs EXCEPT !["D"].Usages = {"Function", "Module"}],
     [SeparateGraphs EXCEPT !["D"].Package = "C"]}

\* The function call nodes the authors add: which scripts a graph's nodes call.
CallableFrom(Target) ==
    CASE Target = "A" -> {"B", "C"}
      [] Target = "D" -> {"A"}
      [] OTHER -> {"D"}

\* The function call nodes CanAddToGraph is asked about: a node with its
\* script loaded, a node that has only the script's asset path, and a node
\* with a signature only.
CallNodes ==
    {CallNode(Id, Id) : Id \in GraphIds}
    \cup {CallNode("None", "A")}
    \cup {CallNode("None", "None")}

\* What GetAssetByObjectPath can answer for the node: the lookup is made
\* only for a node that has a path and no script.
AssetLookups(Node) ==
    IF Node.FunctionScriptAssetObjectPath # "None" /\ Node.FunctionScript = "None"
    THEN BOOLEAN
    ELSE {FALSE}

GraphInit ==
    /\ TraversalIdle
    /\ EditorIdle
    /\ CompileIdle
    /\ RefreshIdle
    /\ Graphs \in InitialGraphStores
    /\ LastCanAdd = NoCanAdd
    /\ Gathers = <<>>

\* UNiagaraNodeFunctionCall::CanAddToGraph, with the result of
\* Super::CanAddToGraph and of the asset registry's lookup as inputs.
CanAddToGraph ==
    /\ UNCHANGED <<TraversalVars, EditorVars>>
    /\ \E Node \in CallNodes, Target \in GraphIds, bSuper \in BOOLEAN :
       \E bAssetValid \in AssetLookups(Node) :
          LET Outcome == CanAddToGraphOutcome(Graphs, Node, Target, bSuper, bAssetValid)
          IN  /\ LastCanAdd' = [Done |-> TRUE, Node |-> Node, Target |-> Target,
                                bSuper |-> bSuper, bAssetValid |-> bAssetValid,
                                Result |-> Outcome.Result, OutErrorMsg |-> Outcome.OutErrorMsg,
                                GraphsBefore |-> Graphs]
              /\ LastCanAdd' # LastCanAdd
              /\ Graphs' = Outcome.Graphs
    /\ UNCHANGED <<CompileVars, RefreshVars, Gathers>>

\* The editor adds the node CanAddToGraph accepted to the target graph.
AddNode ==
    /\ UNCHANGED <<TraversalVars, EditorVars>>
    /\ LastCanAdd.Done
    /\ LastCanAdd.Result
    /\ LET Script == SpawningFunctionScript(LastCanAdd.Node, LastCanAdd.bAssetValid)
           Target == LastCanAdd.Target
       IN  /\ Script \in CallableFrom(Target)
           /\ Len(Graphs[Target].Calls) < MaxCallNodes
           /\ Graphs' = [Graphs EXCEPT ![Target].Calls = Append(@, Script)]
    /\ LastCanAdd' = NoCanAdd
    /\ UNCHANGED <<CompileVars, RefreshVars, Gathers>>

GraphNext ==
    \/ CanAddToGraph
    \/ AddNode

GraphSpec == GraphInit /\ [][GraphNext]_vars

(***************************************************************************)
(* Initial states and actions of the dependency gathering                  *)
(***************************************************************************)
\* The editor adds a function call node with a loaded script to a graph,
\* if CanAddToGraph accepts it.
AddFunctionCallNode ==
    /\ UNCHANGED <<TraversalVars, EditorVars>>
    /\ \E Target \in GraphIds :
       \E Script \in CallableFrom(Target) :
          /\ Len(Graphs[Target].Calls) < MaxCallNodes
          /\ CanAddToGraphOutcome(Graphs, CallNode(Script, Script), Target, TRUE, FALSE).Result
          /\ Graphs' = [Graphs EXCEPT ![Target].Calls = Append(@, Script)]
    /\ Gathers' = <<>>
    /\ UNCHANGED <<CompileVars, RefreshVars, LastCanAdd>>

\* UNiagaraNodeFunctionCall::GatherExternalDependencyData of a node calling
\* a script of the store, with empty output arrays; the calls that follow
\* one another are calls of the same node.
GatherExternalDependencies ==
    /\ UNCHANGED <<TraversalVars, EditorVars>>
    /\ Len(Gathers) < MaxGathers
    /\ \E Id \in GraphIds :
          LET Outcome == GatherOutcome(Graphs, Id)
          IN  /\ Gathers # <<>> => Id = Gathers[1].FunctionScript
              /\ Gathers' = Append(Gathers, Outcome)
              /\ Graphs' = Outcome.Graphs
    /\ UNCHANGED <<CompileVars, RefreshVars, LastCanAdd>>

GatherNext ==
    \/ AddFunctionCallNode
    \/ GatherExternalDependencies

GatherSpec == GraphInit /\ [][GatherNext]_vars

(***************************************************************************)
(* Initial states and actions of the refresh of a call site                *)
(***************************************************************************)
SwitchVar(Name, Type) == [Name |-> Name, Type |-> Type]

\* The static switch inputs a callee graph can have, in FindStaticSwitchInputs' order.
SwitchConfigs ==
    {<<>>}
    \cup {<<SwitchVar(SwitchNames[n], t)>> : n \in DOMAIN SwitchNames, t \in SwitchTypes}
    \cup {<<SwitchVar(SwitchNames[1], t1), SwitchVar(SwitchNames[2], t2)>> :
             t1 \in SwitchTypes, t2 \in SwitchTypes}

\* What an entry of PropagatedStaticSwitchParameters can name: a switch of
\* some callee version, or nothing.
PropagatedVars ==
    {SwitchVar(SwitchNames[n], t) : n \in DOMAIN SwitchNames, t \in SwitchTypes} \cup {NoVar}

PropagatedConfigs ==
    UNION {[1..n -> PropagatedVars] : n \in 0..MaxPropagated}

RefreshInit ==
    /\ TraversalIdle
    /\ EditorIdle
    /\ FunctionInputNodes =
          <<InputNode(ScaleVar, [bExposed |-> TRUE, bRequired |-> TRUE, bCanAutoBind |-> FALSE])>>
    /\ StaticSwitchInputs \in SwitchConfigs
    /\ PropagatedStaticSwitchParameters \in PropagatedConfigs
    /\ CallerInputPins = AllocateDefaultInputPins(FunctionInputNodes, StaticSwitchInputs,
                                                  PropagatedStaticSwitchParameters)
    /\ ChangeId = 1
    /\ CachedChangeId = ChangeId
    /\ Refreshes = <<>>
    /\ CallerOutputNodes = [Spawn |-> NoOutputNode, Update |-> NoOutputNode]
    /\ Compiles = <<>>
    /\ GraphIdle

\* UNiagaraNodeFunctionCall::RefreshFromExternalChanges
RefreshFromExternalChanges ==
    /\ UNCHANGED <<TraversalVars, EditorVars>>
    /\ Len(Refreshes) < MaxRefreshes
    /\ LET Outcome == IF CallSite.FunctionScript.bNull
                      THEN RefreshSignatureOutcome(CallSite, CachedChangeId,
                                                   PropagatedStaticSwitchParameters,
                                                   CallerInputPins)
                      ELSE RefreshFromExternalChangesOutcome(
                               FunctionInputNodes, StaticSwitchInputs, ChangeId, CachedChangeId,
                               PropagatedStaticSwitchParameters, CallerInputPins)
       IN  /\ Refreshes' = Append(Refreshes, Outcome)
           /\ PropagatedStaticSwitchParameters' = Outcome.Propagated
           /\ CallerInputPins' = Outcome.Pins
           /\ CachedChangeId' = Outcome.CachedChangeId
    /\ UNCHANGED <<FunctionInputNodes, CallerOutputNodes, Compiles, StaticSwitchInputs, ChangeId,
                   GraphVars>>

\* The callee's author adds, removes or retypes static switches.
SetStaticSwitchInputs ==
    /\ UNCHANGED <<TraversalVars, EditorVars>>
    /\ ~CallSite.FunctionScript.bNull
    /\ ChangeId < MaxChangeId
    /\ \E Switches \in SwitchConfigs :
          /\ Switches # StaticSwitchInputs
          /\ StaticSwitchInputs' = Switches
    /\ ChangeId' = ChangeId + 1
    /\ Refreshes' = <<>>
    /\ UNCHANGED <<CompileVars, CachedChangeId, PropagatedStaticSwitchParameters, GraphVars>>

\* The caller's author propagates a static switch that has a pin.
AddPropagatedVariable ==
    /\ UNCHANGED <<TraversalVars, EditorVars>>
    /\ Len(PropagatedStaticSwitchParameters) < MaxPropagated
    /\ \E k \in DOMAIN CallerInputPins :
          LET Variable == PinToNiagaraVariable(CallerInputPins[k])
          IN  /\ CallerInputPins[k].bNotConnectable
              /\ ~FindPropagatedVariable(PropagatedStaticSwitchParameters, Variable)
              /\ PropagatedStaticSwitchParameters' =
                    Append(PropagatedStaticSwitchParameters, Variable)
    /\ Refreshes' = <<>>
    /\ UNCHANGED <<CompileVars, StaticSwitchInputs, ChangeId, CachedChangeId, GraphVars>>

\* UNiagaraNodeFunctionCall::RemovePropagatedVariable
RemovePropagated ==
    /\ UNCHANGED <<TraversalVars, EditorVars>>
    /\ \E p \in DOMAIN PropagatedStaticSwitchParameters :
          PropagatedStaticSwitchParameters' =
              RemovePropagatedVariable(PropagatedStaticSwitchParameters,
                                       PropagatedStaticSwitchParameters[p])
    /\ Refreshes' = <<>>
    /\ UNCHANGED <<CompileVars, StaticSwitchInputs, ChangeId, CachedChangeId, GraphVars>>

RefreshNext ==
    \/ RefreshFromExternalChanges
    \/ SetStaticSwitchInputs
    \/ AddPropagatedVariable
    \/ RemovePropagated

RefreshSpec == RefreshInit /\ [][RefreshNext]_vars

(***************************************************************************)
(* Initial states and actions of the call site's traversals                *)
(***************************************************************************)
\* The output nodes the callee graphs of the model have: a Function output
\* node; a Module and a DynamicInput output node; a DynamicInput output node
\* that carries no parameter map.
ScriptOutputNodeConfigs ==
    {[Function |-> ScriptOutputNode(<<ChildOutputNodePin(ParameterMapVar, TRUE)>>),
      Module |-> NoScriptOutputNode,
      DynamicInput |-> NoScriptOutputNode],
     [Function |-> NoScriptOutputNode,
      Module |-> ScriptOutputNode(<<ChildOutputNodePin(ParameterMapVar, TRUE),
                                    ChildOutputNodePin(VelocityVar, TRUE)>>),
      DynamicInput |-> ScriptOutputNode(<<ChildOutputNodePin(ParameterMapVar, FALSE)>>)],
     [Function |-> NoScriptOutputNode,
      Module |-> NoScriptOutputNode,
      DynamicInput |-> ScriptOutputNode(<<ChildOutputNodePin(VelocityVar, TRUE)>>)]}

\* The call sites of the model: of a script, of a signature, and of neither.
CallSiteConfigs ==
    {[FunctionScript |-> NiagaraScript(bDeprecated, OutputNodes),
      Signature |-> InvalidSignature,
      bNodeEnabled |-> bEnabled,
      OutputPins |-> OutputPins] :
        bDeprecated \in BOOLEAN, OutputNodes \in ScriptOutputNodeConfigs, bEnabled \in BOOLEAN,
        OutputPins \in {<<ParameterMapVar>>, <<VelocityVar>>}}
    \cup
    {[FunctionScript |-> NullScript,
      Signature |-> FunctionSignature(bValid, Inputs, bRequiresExecPin),
      bNodeEnabled |-> bEnabled,
      OutputPins |-> IF bRequiresExecPin THEN <<ParameterMapVar>> ELSE <<VelocityVar>>] :
        bValid \in BOOLEAN, Inputs \in {<<MeshVar>>, <<ScaleVar>>},
        bRequiresExecPin \in BOOLEAN, bEnabled \in BOOLEAN}

\* The declared inputs of the callee graphs of these call sites: the
\* parameter map and a data interface, exposed or hidden.
ModuleInputNodes(bExposed) ==
    <<InputNode(ParameterMapVar, [bExposed |-> TRUE, bRequired |-> TRUE, bCanAutoBind |-> FALSE]),
      InputNode(MeshVar, [bExposed |-> bExposed, bRequired |-> TRUE, bCanAutoBind |-> FALSE])>>

TraversalInit ==
    /\ EditorIdle
    /\ CallSite \in CallSiteConfigs
    /\ LastHistory = NoHistory
    /\ FunctionInputNodes \in IF CallSite.FunctionScript.bNull
                             THEN {<<>>}
                             ELSE {ModuleInputNodes(bExposed) : bExposed \in BOOLEAN}
    /\ RefreshIdle
    /\ CallerInputPins =
          IF CallSite.FunctionScript.bNull
          THEN AllocateSignaturePins(CallSite.Signature)
          ELSE AllocateDefaultInputPins(FunctionInputNodes, StaticSwitchInputs,
                                        PropagatedStaticSwitchParameters)
    /\ CallerOutputNodes = [Spawn |-> NoOutputNode, Update |-> NoOutputNode]
    /\ Compiles = <<>>
    /\ GraphIdle

\* UNiagaraNodeFunctionCall::BuildParameterMapHistory, with the builder's
\* GetIgnoreDisabled, bRecursive and whether TraceParameterMapOutputPin finds
\* the upstream parameter map as inputs.
BuildParameterMapHistory ==
    /\ \E bIgnoreDisabled \in BOOLEAN, bRecursive \in BOOLEAN, bTraceFound \in BOOLEAN :
          LET Outcome == BuildParameterMapHistoryOutcome(CallSite, CallerInputPins,
                                                         bIgnoreDisabled, bRecursive, bTraceFound)
          IN  LastHistory' = [Done |-> TRUE,
                              Site |-> CallSite,
                              bIgnoreDisabled |-> bIgnoreDisabled,
                              bRecursive |-> bRecursive,
                              bParamMapIdx |-> Outcome.bParamMapIdx,
                              MatchedPairs |-> Outcome.MatchedPairs,
                              Events |-> Outcome.Events]
    /\ UNCHANGED <<CallSite, CompileVars, RefreshVars, GraphVars, EditorVars>>

\* The caller's author enables or disables the node.
SetEnabledState ==
    /\ CallSite' = [CallSite EXCEPT !.bNodeEnabled = ~@]
    /\ LastHistory' = NoHistory
    /\ Compiles' = <<>>
    /\ UNCHANGED <<FunctionInputNodes, CallerInputPins, CallerOutputNodes, RefreshVars, GraphVars,
                   EditorVars>>

TraversalNext ==
    \/ Compile
    \/ BuildParameterMapHistory
    \/ SetEnabledState
    \/ SetExposureOptions
    \/ MakeLinkTo
    \/ BreakAllPinLinks

TraversalSpec == TraversalInit /\ [][TraversalNext]_vars

(***************************************************************************)
(* Initial states and actions of the naming of function call nodes         *)
(***************************************************************************)
\* How many function call nodes the graph holds at most.
MaxGraphNodes == 3

\* The names SuggestName is called with.
SuggestedNames ==
    {EmptyName, NoneName, NodeName("Foo", 0), NodeName("Foo", 1), NodeName("Bar", 0)}

\* A call site of a script without inputs, on which nothing was done.
NodeIdle ==
    /\ TraversalIdle
    /\ FunctionInputNodes = <<>>
    /\ RefreshIdle
    /\ CallerInputPins = <<>>
    /\ CallerOutputNodes = [Spawn |-> NoOutputNode, Update |-> NoOutputNode]
    /\ Compiles = <<>>
    /\ GraphIdle

\* Two nodes that were not named yet, with the same display name.
NameInit ==
    /\ NodeIdle
    /\ FunctionCallNodes \in
          {<<FunctionCallNode(f1, d), FunctionCallNode(f2, d)>> :
              f1 \in {"Foo", ""}, f2 \in {"Foo", ""}, d \in {EmptyName, NodeName("Foo", 0)}}
    /\ LastComputed = 0
    /\ CacheIdle
    /\ ViewIdle

\* ComputeNodeName, called directly or through SuggestName (line 951).
ComputeNodeName ==
    /\ \E n \in DOMAIN FunctionCallNodes, SuggestedName \in SuggestedNames,
          bForceSuggestion \in BOOLEAN :
          /\ FunctionCallNodes' = ComputeNodeNameOutcome(FunctionCallNodes, n, SuggestedName,
                                                         bForceSuggestion)
          /\ LastComputed' = n
    /\ UNCHANGED <<NodeVars, CacheVars, ViewVars>>

\* The graph's author pastes a copy of a node: the copy has the display
\* name of the original and was not named yet.
PasteNode ==
    /\ Len(FunctionCallNodes) < MaxGraphNodes
    /\ \E n \in DOMAIN FunctionCallNodes :
          FunctionCallNodes' = Append(FunctionCallNodes,
                                      [FunctionCallNodes[n] EXCEPT !.bNamed = FALSE])
    /\ LastComputed' = 0
    /\ UNCHANGED <<NodeVars, CacheVars, ViewVars>>

NameNext ==
    \/ ComputeNodeName
    \/ PasteNode

NameSpec == NameInit /\ [][NameNext]_vars

(***************************************************************************)
(* Initial states and actions of the call site's synchronization           *)
(***************************************************************************)
\* The call sites whose synchronization is followed: of a script, of a valid
\* signature and of neither.
SyncCallSites ==
    {ScriptCallSite,
     [ScriptCallSite EXCEPT !.FunctionScript = NullScript,
                            !.Signature = FunctionSignature(TRUE, <<ScaleVar>>, TRUE)],
     [ScriptCallSite EXCEPT !.FunctionScript = NullScript]}

\* A node that was just created: it has no pins and no cached change id yet.
SyncInit ==
    /\ EditorIdle
    /\ CallSite \in SyncCallSites
    /\ LastHistory = NoHistory
    /\ FunctionInputNodes \in IF CallSite.FunctionScript.bNull
                             THEN {<<>>}
                             ELSE {<<InputNode(ScaleVar, o)>> : o \in ExposureOptionsSet}
    /\ StaticSwitchInputs \in IF CallSite.FunctionScript.bNull THEN {<<>>} ELSE SwitchConfigs
    /\ PropagatedStaticSwitchParameters = <<>>
    /\ CallerInputPins = <<>>
    /\ ChangeId = 1
    /\ CachedChangeId = InvalidChangeId
    /\ Refreshes = <<>>
    /\ CallerOutputNodes = [Spawn |-> NoOutputNode, Update |-> NoOutputNode]
    /\ Compiles = <<>>
    /\ GraphIdle

SyncNext ==
    \/ AllocateDefaultPins
    \/ RefreshFromExternalChanges
    \/ SetStaticSwitchInputs

SyncSpec == SyncInit /\ [][SyncNext]_vars

(***************************************************************************)
(* Properties of the call-site compile                                     *)
(***************************************************************************)
\* The caller pin a declared input matched when the compile started; the
\* callee and the caller's output nodes are those of the current state, as
\* every edit empties Compiles.
MatchedBefore(R, i) == FindMatchingPin(R.PinsBefore, FunctionInputNodes[i])
PinBefore(R, i) == R.PinsBefore[MatchedBefore(R, i)]

\* The attributes of the enclosing output contract (spawn if there is one,
\* else update) that are equivalent to the variable.
EquivalentAttributes(Var) ==
    IF CallerOutputNodes.Spawn.Present
    THEN {A \in CallerOutputNodes.Spawn.Outputs : A.Name = Var.Name /\ A.Type = Var.Type}
    ELSE IF CallerOutputNodes.Update.Present
         THEN {A \in CallerOutputNodes.Update.Outputs : A.Name = Var.Name /\ A.Type = Var.Type}
         ELSE {}

HasAutoBindCandidate(Node) ==
    /\ Node.ExposureOptions.bExposed
    /\ Node.ExposureOptions.bCanAutoBind
    /\ (EquivalentAttributes(Node.Input) # {} \/ Node.Input \in EngineConstants)

\* The diagnostics of a compile that name the given pin.
ErrorsNaming(R, PinName) == {e \in DOMAIN R.Errors : R.Errors[e].Pin = PinName}

\* A required input with a matching, unlinked pin and no auto-bind candidate.
RequiredAndUnbound(R, i) ==
    /\ MatchedBefore(R, i) # 0
    /\ IsRequired(FunctionInputNodes[i])
    /\ PinBefore(R, i).LinkedTo = <<>>
    /\ ~HasAutoBindCandidate(FunctionInputNodes[i])

\* C1: a required input whose matching pin is unlinked, cannot be auto-bound
\* and ignores its default value gets exactly one "required input unbound"
\* error naming that pin and the binding INDEX_NONE, and every declared input
\* still gets its entry in Inputs.
C1_RequiredInputUnbound ==
    \A c \in DOMAIN Compiles : \A i \in DOMAIN FunctionInputNodes :
        LET R == Compiles[c]
        IN  (RequiredAndUnbound(R, i) /\ PinBefore(R, i).bDefaultValueIsIgnored)
            => /\ Cardinality(ErrorsNaming(R, PinBefore(R, i).PinName)) = 1
               /\ \A e \in ErrorsNaming(R, PinBefore(R, i).PinName) :
                     R.Errors[e].Msg = "RequiredInputUnboundError"
               /\ R.Inputs[i] = INDEX_NONE
               /\ R.bError
               /\ Len(R.Inputs) = Len(FunctionInputNodes)

C1_Witness ==
    \E c \in DOMAIN Compiles : \E i \in DOMAIN FunctionInputNodes, j \in DOMAIN FunctionInputNodes :
        LET R == Compiles[c]
        IN  /\ i < j
            /\ RequiredAndUnbound(R, i)
            /\ PinBefore(R, i).bDefaultValueIsIgnored
            /\ R.Inputs[i] = INDEX_NONE
            /\ R.Inputs[j].Kind = "Output"

\* The callee's declared default literal of an input.
DeclaredDefault(Node) ==
    IF Node.InputPinDefault # EmptyValue
    THEN Node.InputPinDefault
    ELSE TypeDefaultValue(Node.Input.Type)

\* A required input with a matching, unlinked pin, no auto-bind candidate and
\* a pin that permits an inline default.
InlineDefaultCase(R, i) ==
    RequiredAndUnbound(R, i) /\ ~PinBefore(R, i).bDefaultValueIsIgnored

\* C2 as stated: the inline default bound for such an input is the callee's
\* declared default literal, and no error is reported for it.
C2_InlineDefaultIsCalleeDefault ==
    \A c \in DOMAIN Compiles : \A i \in DOMAIN FunctionInputNodes :
        LET R == Compiles[c]
        IN  InlineDefaultCase(R, i)
            => /\ R.Inputs[i].Kind = "Constant"
               /\ R.Inputs[i].Value = DeclaredDefault(FunctionInputNodes[i])
               /\ ErrorsNaming(R, PinBefore(R, i).PinName) = {}

\* C2 amended: the inline default bound for such an input is the literal the
\* caller pin holds (DefaultValue), whose autogenerated default is the callee's
\* declared default literal, and no error is reported for it.
C2_InlineDefaultIsPinLiteral ==
    \A c \in DOMAIN Compiles : \A i \in DOMAIN FunctionInputNodes :
        LET R == Compiles[c]
        IN  InlineDefaultCase(R, i)
            => /\ R.Inputs[i].Kind = "Constant"
               /\ R.Inputs[i].Value = PinBefore(R, i).DefaultValue
               /\ R.Inputs[i].Value # EmptyValue
               /\ PinBefore(R, i).AutogeneratedDefaultValue = DeclaredDefault(FunctionInputNodes[i])
               /\ ErrorsNaming(R, PinBefore(R, i).PinName) = {}

C2_Witness ==
    \E c \in DOMAIN Compiles : \E i \in DOMAIN FunctionInputNodes :
        LET R == Compiles[c]
        IN  /\ InlineDefaultCase(R, i)
            /\ PinBefore(R, i).DefaultValue # DeclaredDefault(FunctionInputNodes[i])
            /\ R.Inputs[i].Value = PinBefore(R, i).DefaultValue

\* The input nodes a compile made for the pin of the given name.
NewNodesFor(R, PinName) == {n \in DOMAIN R.NewNodes : R.NewNodes[n].Input.Name = PinName}

\* The end-to-end call site: Velocity (vector, required, auto-bindable) and
\* Scale (float, optional, default 1.0), both with a pin and no caller links.
VelocityScaleCallSite(R) ==
    /\ Len(FunctionInputNodes) = 2
    /\ FunctionInputNodes[1].Input = VelocityVar
    /\ FunctionInputNodes[1].ExposureOptions = [bExposed |-> TRUE, bRequired |-> TRUE, bCanAutoBind |-> TRUE]
    /\ FunctionInputNodes[2].Input = ScaleVar
    /\ FunctionInputNodes[2].ExposureOptions.bExposed
    /\ ~FunctionInputNodes[2].ExposureOptions.bRequired
    /\ FunctionInputNodes[2].InputPinDefault = "1.0"
    /\ MatchedBefore(R, 1) # 0
    /\ MatchedBefore(R, 2) # 0
    /\ \A k \in DOMAIN R.PinsBefore : R.PinsBefore[k].LinkedTo = <<>>

\* The handle of a pin linked to the output of an auto-bound attribute input node.
AutoBoundAttribute(Var) ==
    [Kind |-> "Output", Node |-> "Input", Source |-> Var, Usage |-> "Attribute", Value |-> EmptyValue]

\* C3 as stated: Velocity resolves to the auto-bound attribute when the
\* enclosing context exposes Velocity: vector and to a "required input
\* unbound" error otherwise, and Scale resolves to the inline default 1.0.
C3_VelocityScaleAsStated ==
    \A c \in DOMAIN Compiles :
        LET R == Compiles[c]
        IN  VelocityScaleCallSite(R)
            => /\ IF EquivalentAttributes(VelocityVar) # {}
                  THEN R.Inputs[1] = AutoBoundAttribute(VelocityVar)
                  ELSE /\ R.Inputs[1] = INDEX_NONE
                       /\ \E e \in ErrorsNaming(R, "Velocity") : R.Errors[e].Msg = "RequiredInputUnboundError"
               /\ R.Inputs[2].Kind = "Constant"
               /\ R.Inputs[2].Value = "1.0"

\* C3 amended: Velocity resolves to the auto-bound attribute when the chosen
\* output contract (spawn if present, else update) exposes Velocity: vector;
\* otherwise to the inline literal of its pin when the pin permits one, and to
\* a "required input unbound" error only when the pin ignores its default.
\* Scale, being optional, is not provided (INDEX_NONE) and gets no error.
C3_VelocityScale ==
    \A c \in DOMAIN Compiles :
        LET R == Compiles[c]
        IN  VelocityScaleCallSite(R)
            => /\ IF EquivalentAttributes(VelocityVar) # {}
                  THEN /\ R.Inputs[1] = AutoBoundAttribute(VelocityVar)
                       /\ \E n \in NewNodesFor(R, "Velocity") :
                             /\ R.NewNodes[n].Usage = "Attribute"
                             /\ R.NewNodes[n].FoundVar \in EquivalentAttributes(VelocityVar)
                       /\ ErrorsNaming(R, "Velocity") = {}
                  ELSE IF PinBefore(R, 1).bDefaultValueIsIgnored
                       THEN /\ R.Inputs[1] = INDEX_NONE
                            /\ \E e \in ErrorsNaming(R, "Velocity") :
                                  R.Errors[e].Msg = "RequiredInputUnboundError"
                       ELSE /\ R.Inputs[1].Kind = "Constant"
                            /\ R.Inputs[1].Value = PinBefore(R, 1).DefaultValue
                            /\ ErrorsNaming(R, "Velocity") = {}
               /\ R.Inputs[2] = INDEX_NONE
               /\ ErrorsNaming(R, "Scale") = {}
               /\ NewNodesFor(R, "Scale") = {}

C3_Witness ==
    \E c \in DOMAIN Compiles :
        LET R == Compiles[c]
        IN  /\ VelocityScaleCallSite(R)
            /\ R.PinsBefore = AllocateInputPins(FunctionInputNodes)
            /\ EquivalentAttributes(VelocityVar) = {}
            /\ R.Inputs[1].Kind = "Constant"
            /\ R.Inputs[1].Value = "0,0,0"
            /\ R.Errors = <<>>
            /\ R.Inputs[2] = INDEX_NONE

\* C4: two consecutive compiles with no edit in between give every declared
\* input the same binding and report the same errors, and the second compile
\* makes no input node for a pin the first compile auto-bound (it makes none).
C4_CompileIdempotent ==
    \A c \in DOMAIN Compiles :
        (c + 1 \in DOMAIN Compiles)
        => LET First == Compiles[c]
               Second == Compiles[c + 1]
           IN  /\ Second.Inputs = First.Inputs
               /\ Second.Errors = First.Errors
               /\ Second.bError = First.bError
               /\ Second.PinsBefore = First.PinsAfter
               /\ Second.PinsAfter = First.PinsAfter
               /\ \A n \in DOMAIN First.NewNodes :
                     NewNodesFor(Second, First.NewNodes[n].Input.Name) = {}
               /\ Second.NewNodes = <<>>

C4_Witness ==
    /\ Len(Compiles) >= 2
    /\ Compiles[1].NewNodes # <<>>
    /\ Compiles[2].NewNodes = <<>>
    /\ Compiles[2].Inputs = Compiles[1].Inputs
    /\ \E i \in DOMAIN Compiles[2].Inputs : Compiles[2].Inputs[i].Node = "Input"

\* An exposed, auto-bindable input with a matching pin that had no link.
AutoBindAttempted(R, i) ==
    /\ MatchedBefore(R, i) # 0
    /\ PinBefore(R, i).LinkedTo = <<>>
    /\ FunctionInputNodes[i].ExposureOptions.bExposed
    /\ FunctionInputNodes[i].ExposureOptions.bCanAutoBind

\* C5: for an unlinked auto-bindable input, FindAutoBoundInput returns the
\* equivalent attribute of the chosen output contract with usage Attribute
\* whenever there is one, also when an equal system constant exists;
\* SystemConstant is returned only when there is no equivalent attribute.
C5_AttributeBeforeSystemConstant ==
    \A c \in DOMAIN Compiles : \A i \in DOMAIN FunctionInputNodes :
        LET R == Compiles[c]
            Var == FunctionInputNodes[i].Input
            Bound == FindAutoBoundInput(FunctionInputNodes[i], PinBefore(R, i), CallerOutputNodes)
        IN  AutoBindAttempted(R, i)
            => /\ EquivalentAttributes(Var) # {}
                  => /\ Bound.Found
                     /\ Bound.Usage = "Attribute"
                     /\ Bound.Var \in EquivalentAttributes(Var)
                     /\ \A n \in NewNodesFor(R, Var.Name) : R.NewNodes[n].Usage = "Attribute"
                     /\ R.Inputs[i].Usage = "Attribute"
               /\ Bound.Usage = "SystemConstant"
                  => /\ EquivalentAttributes(Var) = {}
                     /\ Var \in EngineConstants
                     /\ Bound.Var = Var
               /\ R.Inputs[i].Usage = "SystemConstant" => EquivalentAttributes(Var) = {}
               /\ R.Inputs[i].Usage = Bound.Usage

C5_Witness ==
    \E c \in DOMAIN Compiles : \E i \in DOMAIN FunctionInputNodes :
        LET R == Compiles[c]
            Var == FunctionInputNodes[i].Input
        IN  /\ AutoBindAttempted(R, i)
            /\ Var \in EngineConstants
            /\ EquivalentAttributes(Var) # {}
            /\ \E n \in NewNodesFor(R, Var.Name) :
                  R.NewNodes[n].Usage = "Attribute" /\ R.NewNodes[n].FoundVar = Var

\* C10: a declared input whose matching pin has a link is compiled from the
\* traced source of that link (through reroute nodes), and for that input no
\* input node is made, the pin's link is left as it was, and no error names it.
C10_LinkedInput ==
    \A c \in DOMAIN Compiles : \A i \in DOMAIN FunctionInputNodes :
        LET R == Compiles[c]
            k == MatchedBefore(R, i)
        IN  (k # 0 /\ R.PinsBefore[k].LinkedTo # <<>>)
            => /\ R.Inputs[i].Kind = "Output"
               /\ R.Inputs[i].Node # "Reroute"
               /\ R.PinsBefore[k].LinkedTo[1] \in {SourceOut, RerouteOut} => R.Inputs[i].Node = "Source"
               /\ R.Inputs[i].Node = "Input" => R.PinsBefore[k].LinkedTo[1].Node = "Input"
               /\ NewNodesFor(R, R.PinsBefore[k].PinName) = {}
               /\ R.PinsAfter[k] = R.PinsBefore[k]
               /\ ErrorsNaming(R, R.PinsBefore[k].PinName) = {}

C10_Witness ==
    \E c \in DOMAIN Compiles : \E i \in DOMAIN FunctionInputNodes :
        LET R == Compiles[c]
            k == MatchedBefore(R, i)
        IN  /\ k # 0
            /\ R.PinsBefore[k].LinkedTo = <<RerouteOut>>
            /\ HasAutoBindCandidate(FunctionInputNodes[i])
            /\ IsRequired(FunctionInputNodes[i])
            /\ R.Inputs[i].Node = "Source"
            /\ R.NewNodes = <<>>

(***************************************************************************)
(* Properties of the graph store                                           *)
(***************************************************************************)
\* The graphs a set of graphs reaches through function call nodes, itself included.
RECURSIVE ReachableFrom(_)
ReachableFrom(Ids) ==
    LET Called == UNION {{Graphs[Id].Calls[c] : c \in DOMAIN Graphs[Id].Calls} : Id \in Ids}
    IN  IF Called \subseteq Ids THEN Ids ELSE ReachableFrom(Ids \cup Called)

\* The script of the node CanAddToGraph was asked about, "None" when the
\* node has none and the registry finds none.
ScriptAsked ==
    IF LastCanAdd.Node.FunctionScript # "None"
    THEN LastCanAdd.Node.FunctionScript
    ELSE IF LastCanAdd.bAssetValid THEN LastCanAdd.Node.FunctionScriptAssetObjectPath ELSE "None"

\* The target graph's package is the package of a graph the script references.
TargetPackageReferenced ==
    /\ ScriptAsked # "None"
    /\ \E Id \in ReachableFrom({ScriptAsked}) : Graphs[Id].Package = Graphs[LastCanAdd.Target].Package

\* C6: CanAddToGraph returns false whenever the target graph's package is
\* the package of a graph the callable transitively references (its own
\* graph included), with the cycle message in OutErrorMsg once
\* Super::CanAddToGraph has passed; it returns true, setting no message, when
\* there is no such graph and Super::CanAddToGraph passes; and it leaves the
\* graph store as it was.
C6_CycleRejected ==
    LastCanAdd.Done
    => /\ TargetPackageReferenced => ~LastCanAdd.Result
       /\ (TargetPackageReferenced /\ LastCanAdd.bSuper) => LastCanAdd.OutErrorMsg = CycleErrorMsg
       /\ (~TargetPackageReferenced /\ LastCanAdd.bSuper)
          => (LastCanAdd.Result /\ LastCanAdd.OutErrorMsg = EmptyValue)
       /\ ~LastCanAdd.bSuper => ~LastCanAdd.Result
       /\ Graphs = LastCanAdd.GraphsBefore

C6_Witness ==
    /\ LastCanAdd.Done
    /\ LastCanAdd.bSuper
    /\ TargetPackageReferenced
    /\ ScriptAsked # LastCanAdd.Target
    /\ \A c \in DOMAIN Graphs[ScriptAsked].Calls : Graphs[ScriptAsked].Calls[c] # LastCanAdd.Target
    /\ Graphs[ScriptAsked].Package # Graphs[LastCanAdd.Target].Package
    /\ ~LastCanAdd.Result
    /\ LastCanAdd.OutErrorMsg = CycleErrorMsg
    /\ Graphs = LastCanAdd.GraphsBefore

(***************************************************************************)
(* Properties of the dependency gathering                                  *)
(***************************************************************************)
\* C7 as stated: the object paths a gather produces hold every graph's path
\* at most once (one entry for D under a diamond, one entry for a callee
\* with several usages).
C7_OneEntryPerPath ==
    \A n \in DOMAIN Gathers :
        \A i \in DOMAIN Gathers[n].InReferencedObjs, j \in DOMAIN Gathers[n].InReferencedObjs :
            i # j => Gathers[n].InReferencedObjs[i] # Gathers[n].InReferencedObjs[j]

\* The diamond A->B, A->C, B->D, C->D of graphs with one usage each, gathered
\* for a node calling A: D is entered twice.
C7_DiamondGathered ==
    /\ Graphs["A"].Calls = <<"B", "C">>
    /\ Graphs["B"].Calls = <<"D">>
    /\ Graphs["C"].Calls = <<"D">>
    /\ Graphs["D"].Calls = <<>>
    /\ Graphs["D"].Usages = {"Function"}
    /\ Gathers # <<>>
    /\ Gathers[1].FunctionScript = "A"
    /\ Gathers[1].InReferencedObjs = <<"A", "B", "D", "C", "D">>

\* C8: the gathers made for the same node with no edit in between produce
\* the same compile hashes and the same object paths, in the same order.
C8_GatherDeterministic ==
    \A m \in DOMAIN Gathers, n \in DOMAIN Gathers :
        Gathers[m].FunctionScript = Gathers[n].FunctionScript
        => /\ Gathers[m].InReferencedCompileHashes = Gathers[n].InReferencedCompileHashes
           /\ Gathers[m].InReferencedObjs = Gathers[n].InReferencedObjs
           /\ Len(Gathers[n].InReferencedCompileHashes) = Len(Gathers[n].InReferencedObjs)

C8_Witness ==
    /\ Len(Gathers) >= 2
    /\ Gathers[1].FunctionScript = Gathers[2].FunctionScript
    /\ Gathers[1].bCachedCompileIdsRebuilt
    /\ ~Gathers[2].bCachedCompileIdsRebuilt
    /\ Len(Gathers[1].InReferencedObjs) >= 3
    /\ Gathers[1].InReferencedCompileHashes = Gathers[2].InReferencedCompileHashes
    /\ Gathers[1].InReferencedObjs = Gathers[2].InReferencedObjs

(***************************************************************************)
(* Properties of the refresh                                               *)
(***************************************************************************)
\* The propagated entries for the switch of the given name and type.
PropagatedFor(Propagated, Name, Type) ==
    {p \in DOMAIN Propagated : Propagated[p].Name = Name /\ Propagated[p].Type = Type}

\* C9: after RefreshFromExternalChanges every propagated entry has a name and
\* names a static switch input of the callee, every static switch pin ignores
\* its default exactly when an entry for its switch (name and type) remains,
\* and a pin whose entry was removed, with no entry of its name left, no
\* longer ignores its default.
C9_RefreshPrunesPropagatedSwitches ==
    Refreshes # <<>>
    => LET R == Refreshes[Len(Refreshes)]
       IN  /\ \A p \in DOMAIN PropagatedStaticSwitchParameters :
                 /\ PropagatedStaticSwitchParameters[p].Name # "None"
                 /\ \E s \in DOMAIN StaticSwitchInputs :
                       /\ StaticSwitchInputs[s].Name = PropagatedStaticSwitchParameters[p].Name
                       /\ StaticSwitchInputs[s].Type = PropagatedStaticSwitchParameters[p].Type
           /\ \A k \in DOMAIN CallerInputPins :
                 CallerInputPins[k].bNotConnectable
                 => (CallerInputPins[k].bDefaultValueIsIgnored
                     <=> PropagatedFor(PropagatedStaticSwitchParameters,
                                       CallerInputPins[k].PinName, CallerInputPins[k].PinType) # {})
           /\ \A o \in DOMAIN R.PinsBefore : \A k \in DOMAIN CallerInputPins :
                 (/\ R.PinsBefore[o].bNotConnectable
                  /\ CallerInputPins[k].PinName = R.PinsBefore[o].PinName
                  /\ PropagatedFor(R.PropagatedBefore, R.PinsBefore[o].PinName, R.PinsBefore[o].PinType) # {}
                  /\ \A p \in DOMAIN PropagatedStaticSwitchParameters :
                        PropagatedStaticSwitchParameters[p].Name # R.PinsBefore[o].PinName)
                 => ~CallerInputPins[k].bDefaultValueIsIgnored

C9_Witness ==
    /\ Len(Refreshes) = 1
    /\ \E o \in DOMAIN Refreshes[1].PinsBefore : \E k \in DOMAIN CallerInputPins :
          LET Old == Refreshes[1].PinsBefore[o]
          IN  /\ Old.bNotConnectable
              /\ Old.bDefaultValueIsIgnored
              /\ PropagatedFor(Refreshes[1].PropagatedBefore, Old.PinName, Old.PinType) # {}
              /\ \A p \in DOMAIN PropagatedStaticSwitchParameters :
                    PropagatedStaticSwitchParameters[p].Name # Old.PinName
              /\ CallerInputPins[k].PinName = Old.PinName
              /\ CallerInputPins[k].bNotConnectable
              /\ ~CallerInputPins[k].bDefaultValueIsIgnored

(***************************************************************************)
(* Properties of the binding of each declared input                        *)
(***************************************************************************)
\* What FindAutoBoundInput finds for a declared input's matched pin.
BoundBefore(R, i) ==
    FindAutoBoundInput(FunctionInputNodes[i], PinBefore(R, i), CallerOutputNodes)

\* The matched pin had no link and FindAutoBoundInput succeeds for it.
AutoBindCase(R, i) ==
    /\ MatchedBefore(R, i) # 0
    /\ PinBefore(R, i).LinkedTo = <<>>
    /\ BoundBefore(R, i).Found

\* C11: when the matched pin has no link and FindAutoBoundInput succeeds,
\* the compile makes exactly one input node carrying the pin's variable and
\* the found usage, the pin's links become the one link to that node's
\* output, the input is compiled as that linked pin, and the pin is linked
\* once the compile has returned.
C11_AutoBoundMaterialized ==
    \A c \in DOMAIN Compiles : \A i \in DOMAIN FunctionInputNodes :
        LET R == Compiles[c]
            k == MatchedBefore(R, i)
            PinVar == PinToNiagaraVariable(PinBefore(R, i))
            Made == NewNodesFor(R, PinBefore(R, i).PinName)
        IN  AutoBindCase(R, i)
            => /\ Cardinality(Made) = 1
               /\ \A n \in Made : /\ R.NewNodes[n].Input = PinVar
                                  /\ R.NewNodes[n].Usage = BoundBefore(R, i).Usage
               /\ R.PinsAfter[k].LinkedTo = <<InputNodeOut(PinVar, BoundBefore(R, i).Usage)>>
               /\ R.Inputs[i] = CompilePin(R.PinsAfter[k])
               /\ R.Inputs[i].Kind = "Output"
               /\ R.Inputs[i].Node = "Input"
               /\ ErrorsNaming(R, PinBefore(R, i).PinName) = {}
               /\ c = Len(Compiles) => CallerInputPins[k].LinkedTo = R.PinsAfter[k].LinkedTo

C11_Witness ==
    \E c \in DOMAIN Compiles : \E i \in DOMAIN FunctionInputNodes :
        LET R == Compiles[c]
            k == MatchedBefore(R, i)
        IN  /\ c = Len(Compiles)
            /\ AutoBindCase(R, i)
            /\ BoundBefore(R, i).Usage = "SystemConstant"
            /\ Len(CallerInputPins[k].LinkedTo) = 1
            /\ CallerInputPins[k].LinkedTo[1].Node = "Input"
            /\ CallerInputPins[k].LinkedTo[1].Usage = "SystemConstant"
            /\ Len(R.NewNodes) = 1

\* An optional input with a matching, unlinked pin that cannot be auto-bound.
OptionalAndUnbound(R, i) ==
    /\ MatchedBefore(R, i) # 0
    /\ ~IsRequired(FunctionInputNodes[i])
    /\ PinBefore(R, i).LinkedTo = <<>>
    /\ ~BoundBefore(R, i).Found

\* C12: an optional input with a matching, unlinked pin that cannot be
\* auto-bound is bound INDEX_NONE, with no diagnostic naming its pin, no
\* input node made for it and its pin left as it was.
C12_OptionalUnboundAbsent ==
    \A c \in DOMAIN Compiles : \A i \in DOMAIN FunctionInputNodes :
        LET R == Compiles[c]
            k == MatchedBefore(R, i)
        IN  OptionalAndUnbound(R, i)
            => /\ R.Inputs[i] = INDEX_NONE
               /\ ErrorsNaming(R, PinBefore(R, i).PinName) = {}
               /\ NewNodesFor(R, PinBefore(R, i).PinName) = {}
               /\ R.PinsAfter[k] = R.PinsBefore[k]
               /\ (\A j \in DOMAIN FunctionInputNodes : OptionalAndUnbound(R, j))
                  => (R.Errors = <<>> /\ ~R.bError)

C12_Witness ==
    \E c \in DOMAIN Compiles : \E i \in DOMAIN FunctionInputNodes :
        LET R == Compiles[c]
        IN  /\ OptionalAndUnbound(R, i)
            /\ CanAutoBind(FunctionInputNodes[i])
            /\ PinBefore(R, i).bDefaultValueIsIgnored
            /\ R.Inputs[i] = INDEX_NONE
            /\ R.Errors = <<>>

\* An exposed input no caller pin matches.
StaleInput(R, i) ==
    MatchedBefore(R, i) = 0 /\ IsExposed(FunctionInputNodes[i])

\* The stale function call errors of a compile.
StaleErrors(R) == {e \in DOMAIN R.Errors : R.Errors[e] = StaleFunctionCallError}

\* C13: an exposed input without a matching pin gives a "stale function
\* call" error against the call site (no pin), one for each such input, sets
\* bError, is bound INDEX_NONE, and the other inputs still get their entries.
C13_StaleFunctionCall ==
    \A c \in DOMAIN Compiles : \A i \in DOMAIN FunctionInputNodes :
        LET R == Compiles[c]
        IN  StaleInput(R, i)
            => /\ StaleErrors(R) # {}
               /\ Cardinality(StaleErrors(R)) =
                     Cardinality({j \in DOMAIN FunctionInputNodes : StaleInput(R, j)})
               /\ \A e \in StaleErrors(R) : R.Errors[e].Pin = "None"
               /\ R.bError
               /\ R.Inputs[i] = INDEX_NONE
               /\ Len(R.Inputs) = Len(FunctionInputNodes)
               /\ \A j \in DOMAIN FunctionInputNodes :
                     (MatchedBefore(R, j) # 0 /\ PinBefore(R, j).LinkedTo # <<>>)
                     => R.Inputs[j] = CompilePin(PinBefore(R, j))

C13_Witness ==
    \E c \in DOMAIN Compiles :
        LET R == Compiles[c]
        IN  /\ Len(FunctionInputNodes) = 2
            /\ StaleInput(R, 1)
            /\ R.Inputs[1] = INDEX_NONE
            /\ R.Errors = <<StaleFunctionCallError>>
            /\ R.Inputs[2].Kind = "Output"

\* A declared input that is not exposed and that no caller pin matches.
HiddenInput(R, i) ==
    MatchedBefore(R, i) = 0 /\ ~IsExposed(FunctionInputNodes[i])

\* C14: an input that is not exposed and has no matching pin is bound to
\* GetConstant of the input when it is marked required and INDEX_NONE when
\* it is not, and no error is reported for it.
C14_HiddenInputConstant ==
    \A c \in DOMAIN Compiles : \A i \in DOMAIN FunctionInputNodes :
        LET R == Compiles[c]
            Node == FunctionInputNodes[i]
        IN  HiddenInput(R, i)
            => /\ R.Inputs[i] = IF Node.ExposureOptions.bRequired
                                THEN GetConstant(Node)
                                ELSE INDEX_NONE
               /\ ErrorsNaming(R, Node.Input.Name) = {}
               /\ StaleErrors(R) # {} => \E j \in DOMAIN FunctionInputNodes : StaleInput(R, j)
               /\ (\A j \in DOMAIN FunctionInputNodes : HiddenInput(R, j))
                  => (R.Errors = <<>> /\ ~R.bError)

C14_Witness ==
    \E c \in DOMAIN Compiles :
        LET R == Compiles[c]
        IN  /\ Len(FunctionInputNodes) = 2
            /\ HiddenInput(R, 1)
            /\ HiddenInput(R, 2)
            /\ FunctionInputNodes[1].ExposureOptions.bRequired
            /\ ~FunctionInputNodes[2].ExposureOptions.bRequired
            /\ R.Inputs[1].Kind = "Constant"
            /\ R.Inputs[1].Source = FunctionInputNodes[1].Input
            /\ R.Inputs[2] = INDEX_NONE
            /\ R.Errors = <<>>

\* A required input with a matching, unlinked pin that cannot be auto-bound
\* and whose pin ignores its default.
UnboundInput(R, i) ==
    /\ MatchedBefore(R, i) # 0
    /\ IsRequired(FunctionInputNodes[i])
    /\ PinBefore(R, i).LinkedTo = <<>>
    /\ ~BoundBefore(R, i).Found
    /\ PinBefore(R, i).bDefaultValueIsIgnored

\* The diagnostic a declared input raises, if it raises one.
ErrorOfInput(R, i) ==
    IF StaleInput(R, i)
    THEN <<StaleFunctionCallError>>
    ELSE IF UnboundInput(R, i)
         THEN <<RequiredInputUnboundError(PinBefore(R, i))>>
         ELSE <<>>

RECURSIVE ErrorsOfInputs(_, _)
ErrorsOfInputs(R, i) ==
    IF i > Len(FunctionInputNodes) THEN <<>> ELSE ErrorOfInput(R, i) \o ErrorsOfInputs(R, i + 1)

\* C15: whatever errors earlier inputs raised, every declared input gets
\* exactly one entry in Inputs, at its own position, and the diagnostics of
\* the compile are those of all its stale and unbound inputs, in the order
\* of the inputs.
C15_NoEarlyAbort ==
    \A c \in DOMAIN Compiles :
        LET R == Compiles[c]
        IN  /\ Len(R.Inputs) = Len(FunctionInputNodes)
            /\ R.Errors = ErrorsOfInputs(R, 1)
            /\ R.bError <=> R.Errors # <<>>
            /\ \A i \in DOMAIN FunctionInputNodes :
                  /\ R.Inputs[i].Kind = "Constant" => R.Inputs[i].Source = FunctionInputNodes[i].Input
                  /\ R.Inputs[i].Node = "Input" => R.Inputs[i].Source = FunctionInputNodes[i].Input
                  /\ (StaleInput(R, i) \/ UnboundInput(R, i)) => R.Inputs[i] = INDEX_NONE

C15_Witness ==
    \E c \in DOMAIN Compiles :
        LET R == Compiles[c]
        IN  /\ Len(FunctionInputNodes) = 2
            /\ StaleInput(R, 1)
            /\ UnboundInput(R, 2)
            /\ Len(R.Errors) = 2
            /\ R.Errors[1] = StaleFunctionCallError
            /\ R.Errors[2].Msg = "RequiredInputUnboundError"
            /\ Len(R.Inputs) = 2


(***************************************************************************)
(* Properties of the callable's kind and of the translator's scopes        *)
(***************************************************************************)
\* The call site has neither a function graph nor a valid signature.
UnresolvedCallable == CallSite.FunctionScript.bNull /\ ~CallSite.Signature.bValid

HasEvent(Events, Event) == \E e \in DOMAIN Events : Events[e] = Event

\* C16: a Compile on a call site that has neither a function graph nor a
\* valid signature reports an error against the call site (no pin), never
\* enters a call scope and never calls the translator's FunctionCall.
C16_UnknownFunctionIsAnError ==
    UnresolvedCallable =>
        \A c \in DOMAIN Compiles :
            /\ \E e \in DOMAIN Compiles[c].Errors :
                  Compiles[c].Errors[e] = [Msg |-> "UnknownFunction", Pin |-> "None"]
            /\ ~HasEvent(Compiles[c].Events, "EnterFunctionCallNode")
            /\ ~HasEvent(Compiles[c].Events, "FunctionCall")
            /\ Compiles[c].Outputs = <<>>

C16_Witness ==
    /\ UnresolvedCallable
    /\ Len(Compiles) = MaxCompiles
    /\ \A c \in DOMAIN Compiles : Compiles[c].Errors # <<>>


\* The positions of the translator's FunctionCall in a compile's events.
FunctionCalls(Out) == {e \in DOMAIN Out.Events : Out.Events[e] = "FunctionCall"}

\* The errors the node itself reports in Compile.
NodeErrorMsgs ==
    {"StaleFunctionCallError", "RequiredInputUnboundError", "Invalid1", "Invalid2",
     "UnknownFunction"}

\* C17: in every Compile the translator's FunctionCall is called, once and
\* as the last step, if and only if the compile reported no error; after a
\* stale-binding, required-unbound, signature-validation or unresolved-callable
\* error it is not called and Outputs is left as it was (empty); a
\* deprecation warning alone does not suppress it.
C17_FunctionCallIffNoError ==
    \A c \in DOMAIN Compiles :
        LET Out == Compiles[c]
        IN  /\ (Out.Errors = <<>>) <=> (FunctionCalls(Out) # {})
            /\ FunctionCalls(Out) # {}
               => /\ FunctionCalls(Out) = {Len(Out.Events)}
                  /\ Out.Outputs = <<"FunctionCallOutputs">>
            /\ (\E e \in DOMAIN Out.Errors : Out.Errors[e].Msg \in NodeErrorMsgs)
               => FunctionCalls(Out) = {} /\ Out.Outputs = <<>>

C17_Witness ==
    /\ Len(Compiles) = 2
    /\ Compiles[1].Errors = ValidationErrors(<<"Invalid1", "Invalid2">>)
    /\ FunctionCalls(Compiles[1]) = {}
    /\ Compiles[1].Outputs = <<>>
    /\ Compiles[2].Errors = <<>>
    /\ FunctionCalls(Compiles[2]) = {Len(Compiles[2].Events)}
    /\ Compiles[2].Outputs # <<>>


\* The positions of an event in the calls a traversal made on OutHistory.
Positions(Events, Event) == {e \in DOMAIN Events : Events[e] = Event}

\* Every position of the first set is before every position of the second.
AllBefore(First, Second) == \A a \in First, b \in Second : a < b

\* C18: BuildParameterMapHistory on an enabled call site with a callee graph
\* calls, in this order, EnterFunction, BeginNodeVisitation (when the upstream
\* parameter map was found), the callee output node's traversal,
\* EndNodeVisitation (likewise), ExitFunction, and only then
\* RegisterParameterMapPin once for every matched output pin.
C18_RegisterAfterExitFunction ==
    (LastHistory.Done /\ LastHistory.Site.bNodeEnabled /\ ~LastHistory.Site.FunctionScript.bNull)
    => LET Ev == LastHistory.Events
           Enter == Positions(Ev, "EnterFunction")
           Begin == Positions(Ev, "BeginNodeVisitation")
           Traversal == Positions(Ev, "OutputNodeBuildParameterMapHistory")
           End == Positions(Ev, "EndNodeVisitation")
           Exit == Positions(Ev, "ExitFunction")
           Register == Positions(Ev, "RegisterParameterMapPin")
       IN  /\ Cardinality(Enter) = 1
           /\ Cardinality(Traversal) = 1
           /\ Cardinality(Exit) = 1
           /\ Cardinality(Begin) = (IF LastHistory.bParamMapIdx THEN 1 ELSE 0)
           /\ Cardinality(End) = Cardinality(Begin)
           /\ Cardinality(Register) = Len(LastHistory.MatchedPairs)
           /\ AllBefore(Enter, Begin \cup Traversal)
           /\ AllBefore(Begin, Traversal)
           /\ AllBefore(Traversal, End \cup Exit)
           /\ AllBefore(End, Exit)
           /\ AllBefore(Exit, Register)

C18_Witness ==
    /\ LastHistory.Done
    /\ LastHistory.Site.bNodeEnabled
    /\ ~LastHistory.Site.FunctionScript.bNull
    /\ LastHistory.bParamMapIdx
    /\ Positions(LastHistory.Events, "BeginNodeVisitation") # {}
    /\ Positions(LastHistory.Events, "RegisterParameterMapPin") # {}


\* C19: BuildParameterMapHistory on a disabled call site, with a builder that
\* ignores disabled nodes, only routes the parameter map around the node:
\* no EnterFunction, no ExitFunction and no SetStaticSwitchConstants, with or
\* without a callee graph.
C19_DisabledIsRoutedAround ==
    (LastHistory.Done /\ ~LastHistory.Site.bNodeEnabled /\ LastHistory.bIgnoreDisabled)
    => /\ LastHistory.Events = <<"RouteParameterMapAroundMe">>
       /\ Positions(LastHistory.Events, "EnterFunction") = {}
       /\ Positions(LastHistory.Events, "ExitFunction") = {}
       /\ Positions(LastHistory.Events, "SetStaticSwitchConstants") = {}
       /\ LastHistory.MatchedPairs = <<>>

C19_Witness ==
    /\ LastHistory.Done
    /\ ~LastHistory.Site.bNodeEnabled
    /\ LastHistory.bIgnoreDisabled
    /\ ~LastHistory.Site.FunctionScript.bNull
    /\ LastHistory.Events = <<"RouteParameterMapAroundMe">>


\* The scopes a sequence of translator or history-builder calls has entered
\* and not yet exited.
ScopeDepth(Events) ==
    Cardinality(Positions(Events, "EnterFunctionCallNode") \cup Positions(Events, "EnterFunction"))
    - Cardinality(Positions(Events, "ExitFunctionCallNode") \cup Positions(Events, "ExitFunction"))

\* Every exit follows its enter, and the depth on return is the depth on entry.
ScopesBalanced(Events) ==
    /\ \A n \in DOMAIN Events : ScopeDepth(SubSeq(Events, 1, n)) >= 0
    /\ ScopeDepth(Events) = 0

\* C20: every Compile and every BuildParameterMapHistory exits as many scopes
\* as it entered, each exit after its enter, also when the compile reports
\* binding errors, a signature validation failure or an unknown function.
C20_ScopesBalanced ==
    /\ \A c \in DOMAIN Compiles : ScopesBalanced(Compiles[c].Events)
    /\ ScopesBalanced(LastHistory.Events)

C20_Witness ==
    /\ Len(Compiles) = MaxCompiles
    /\ \A c \in DOMAIN Compiles :
          /\ Compiles[c].Errors # <<>>
          /\ Positions(Compiles[c].Events, "EnterFunctionCallNode") # {}
    /\ LastHistory.Done
    /\ Positions(LastHistory.Events, "EnterFunction") # {}


(***************************************************************************)
(* Properties of the pairing of the callee's outputs                       *)
(***************************************************************************)
\* The traversal went into the callee graph (it was not routed around).
EnteredCallee ==
    /\ LastHistory.Done
    /\ ~LastHistory.Site.FunctionScript.bNull
    /\ ~(~LastHistory.Site.bNodeEnabled /\ LastHistory.bIgnoreDisabled)

\* The pins of the callee's output node the traversal looked at.
ChildOutputPins == FindScriptOutputNode(LastHistory.Site.FunctionScript).Pins

\* The call site's output pin is among the registered pairs.
IsRegistered(Out) ==
    /\ \E p \in DOMAIN LastHistory.MatchedPairs : LastHistory.MatchedPairs[p] = Out
    /\ Cardinality(Positions(LastHistory.Events, "RegisterParameterMapPin"))
          = Len(LastHistory.MatchedPairs)

\* C21 as stated: every pin of the callee's output node that has an
\* equivalent output pin on the call site is paired with it and registered.
C21_EveryOutputPaired ==
    EnteredCallee =>
        \A c \in DOMAIN ChildOutputPins, o \in DOMAIN LastHistory.Site.OutputPins :
            IsEquivalent(LastHistory.Site.OutputPins[o], ChildOutputPins[c].Var)
            => IsRegistered(LastHistory.Site.OutputPins[o])

\* C21: an output pin of the call site is paired and registered exactly when
\* it is equivalent to a pin of the callee's output node that is linked and
\* carries a parameter map; other outputs of the callee are not paired.
C21_LinkedParameterMapsPaired ==
    EnteredCallee =>
        \A o \in DOMAIN LastHistory.Site.OutputPins :
            IsRegistered(LastHistory.Site.OutputPins[o])
            <=> \E c \in DOMAIN ChildOutputPins :
                   /\ ChildOutputPins[c].bLinked
                   /\ ChildOutputPins[c].Var.Type = "ParameterMap"
                   /\ IsEquivalent(LastHistory.Site.OutputPins[o], ChildOutputPins[c].Var)

C21_Witness ==
    /\ EnteredCallee
    /\ \E c \in DOMAIN ChildOutputPins :
          /\ ChildOutputPins[c].bLinked
          /\ ChildOutputPins[c].Var.Type = "ParameterMap"
          /\ IsEquivalent(LastHistory.Site.OutputPins[1], ChildOutputPins[c].Var)
    /\ IsRegistered(LastHistory.Site.OutputPins[1])


(***************************************************************************)
(* Properties of the display names                                         *)
(***************************************************************************)
\* C22: the display name ComputeNodeName (also through SuggestName, forced
\* or not) gave a node differs from the display name of every other function
\* call node of the graph; so once every node of the graph was named, the
\* display names are pairwise distinct.
C22_DisplayNamesUnique ==
    /\ LastComputed # 0
       => \A m \in DOMAIN FunctionCallNodes \ {LastComputed} :
             FunctionCallNodes[m].FunctionDisplayName
                # FunctionCallNodes[LastComputed].FunctionDisplayName
    /\ (\A n \in DOMAIN FunctionCallNodes : FunctionCallNodes[n].bNamed)
       => \A n \in DOMAIN FunctionCallNodes, m \in DOMAIN FunctionCallNodes :
             n # m => FunctionCallNodes[n].FunctionDisplayName
                         # FunctionCallNodes[m].FunctionDisplayName

C22_Witness ==
    /\ Len(FunctionCallNodes) = MaxGraphNodes
    /\ \A n \in DOMAIN FunctionCallNodes :
          /\ FunctionCallNodes[n].bNamed
          /\ FunctionCallNodes[n].FunctionDisplayName.Text = "Foo"
    /\ \E n \in DOMAIN FunctionCallNodes : FunctionCallNodes[n].FunctionDisplayName.Index > 1


(***************************************************************************)
(* Properties of the inline defaults of the input pins                     *)
(***************************************************************************)
\* The call site's pins are those AllocateDefaultPins created from the
\* callee as it is now.
PinsAsAllocated == CachedChangeId = ChangeId

\* The pin permits an inline default.
PermitsInlineDefault(Pin) == ~Pin.bDefaultValueIsIgnored

\* The input pin of a signature's data interface input, when there is one.
ClassTypedSignaturePins ==
    {k \in DOMAIN CallerInputPins :
        /\ CallSite.FunctionScript.bNull
        /\ \E i \in DOMAIN CallSite.Signature.Inputs :
              /\ IsEquivalent(PinToNiagaraVariable(CallerInputPins[k]), CallSite.Signature.Inputs[i])
              /\ IsClassType(CallSite.Signature.Inputs[i].Type)}

\* C23 as stated: a pin created by AllocateDefaultPins permits an inline
\* default exactly when its declared input is required and not class-typed,
\* and Compile binds a class-typed input only to a link or an auto-bind, or
\* reports it unbound, never to an inline literal.
C23_NoInlineDefaultForClassTypes ==
    /\ PinsAsAllocated /\ ~CallSite.FunctionScript.bNull
       => \A n \in DOMAIN FunctionInputNodes, k \in DOMAIN CallerInputPins :
             IsEquivalent(PinToNiagaraVariable(CallerInputPins[k]), FunctionInputNodes[n].Input)
             => (PermitsInlineDefault(CallerInputPins[k])
                 <=> (IsRequired(FunctionInputNodes[n])
                      /\ ~IsClassType(FunctionInputNodes[n].Input.Type)))
    /\ PinsAsAllocated
       => \A k \in ClassTypedSignaturePins : ~PermitsInlineDefault(CallerInputPins[k])
    /\ ~CallSite.FunctionScript.bNull
       => \A c \in DOMAIN Compiles, n \in DOMAIN FunctionInputNodes :
             IsClassType(FunctionInputNodes[n].Input.Type)
             => \/ Compiles[c].Inputs[n].Kind = "Output"
                \/ (Compiles[c].Inputs[n] = INDEX_NONE /\ Compiles[c].Errors # <<>>)
    /\ \A c \in DOMAIN Compiles, k \in ClassTypedSignaturePins :
          Compiles[c].Inputs # <<>> => Compiles[c].Inputs[k].Kind # "Constant"

\* A signature with a data interface input, whose pin AllocateDefaultPins
\* created permitting an inline default, and which Compile handed to
\* CompileInputPins unlinked.
C23_SignaturePinPermitsDefault ==
    /\ PinsAsAllocated
    /\ \E k \in ClassTypedSignaturePins :
          /\ PermitsInlineDefault(CallerInputPins[k])
          /\ CallerInputPins[k].LinkedTo = <<>>
          /\ Len(Compiles) > 0
          /\ Compiles[1].Inputs # <<>>


(***************************************************************************)
(* Properties of the cached change id                                      *)
(***************************************************************************)
\* The names of pins, in pin order.
PinNames(Pins) == [k \in DOMAIN Pins |-> Pins[k].PinName]

\* A step of AllocateDefaultPins: neither a refresh nor an edit of the callee.
AllocateStep == ChangeId' = ChangeId /\ Refreshes' = Refreshes

\* A step of RefreshFromExternalChanges on a call site with a callee graph.
GraphRefreshStep == Len(Refreshes') = Len(Refreshes) + 1 /\ ~CallSite.FunctionScript.bNull

C25_Step ==
    /\ AllocateStep
       => CachedChangeId' = (IF CallSite.FunctionScript.bNull THEN InvalidChangeId ELSE ChangeId)
    /\ GraphRefreshStep
       => LET Outcome == Refreshes'[Len(Refreshes')]
              Fresh == AllocateDefaultInputPins(FunctionInputNodes, StaticSwitchInputs,
                                                Outcome.Propagated)
          IN  /\ Outcome.bReload <=> CachedChangeId # ChangeId
              /\ Outcome.bReload => PinNames(CallerInputPins') = PinNames(Fresh)
              /\ ~Outcome.bReload => PinNames(CallerInputPins') = PinNames(CallerInputPins)
              /\ CachedChangeId' = ChangeId
              /\ Len(Refreshes) > 0 => ~Outcome.bReload

\* C25: AllocateDefaultPins sets the cached change id to the callee graph's
\* current change id, or to the invalid id when there is no callee graph; a
\* refresh of a call site with a callee graph reports a reload and
\* reallocates the pins exactly when the cached id differs from the callee's
\* current id, leaves the cached id equal to it, and a further refresh with
\* no edit of the callee in between reports no reload.
C25_CachedChangeIdTracksCallee == [][C25_Step]_vars

C25_Witness ==
    /\ ~CallSite.FunctionScript.bNull
    /\ ChangeId = MaxChangeId
    /\ Len(Refreshes) = MaxRefreshes
    /\ Refreshes[1].bReload
    /\ PinNames(Refreshes[1].PinsBefore) # PinNames(Refreshes[1].Pins)
    /\ ~Refreshes[Len(Refreshes)].bReload
    /\ CachedChangeId = ChangeId

(***************************************************************************)
(* Initial states and actions of the key-length wrapper                    *)
(***************************************************************************)
\* The longest head of the original key that a shortened key keeps, and the
\* number of calls that are recorded.
MaxOriginalPart == 2
MaxCacheCalls == 2

KeyOfChars(Char, Count) == [i \in 1..Count |-> Char]

\* Two keys longer than every MaxKeyLength, of one length and with the same
\* characters in another order: their digests collide.
LongKey(Last) == KeyOfChars("a", HashStringSize + MaxOriginalPart + 2) \o Last
LongKeyAB == LongKey(<<"a", "b">>)
LongKeyBA == LongKey(<<"b", "a">>)

CacheKeys ==
    {<<"a", "b">>, KeyOfChars("a", HashStringSize + 3), LongKeyAB, LongKeyBA}

CacheData == {<<"x">>, <<"y", "z">>}

\* What the inner backend holds at first: nothing, an entry that was put for
\* LongKeyBA, or a truncated entry under the shortened LongKeyAB.
InitialItems(MaxLength) ==
    {<<>>,
     [k \in {ShortenKey(LongKeyBA, MaxLength).Result} |-> <<"y", "z">> \o KeyBytes(LongKeyBA)],
     [k \in {ShortenKey(LongKeyAB, MaxLength).Result} |-> <<"x">>]}

CacheInit ==
    /\ NodeIdle
    /\ NameIdle
    /\ ViewIdle
    /\ MaxKeyLength \in (HashStringSize + 1)..(HashStringSize + 2 + MaxOriginalPart)
    /\ bDoCheck \in BOOLEAN
    /\ \E bWritable \in BOOLEAN, Held \in InitialItems(MaxKeyLength) :
           InnerBackend = [bWritable |-> bWritable, Items |-> Held]
    /\ CacheCalls = <<>>

\* The payload a backend holds under a key, as a sequence of none or one.
HeldUnder(Backend, Key) ==
    IF InnerExists(Backend, Key) THEN <<Backend.Items[Key]>> ELSE <<>>

\* The record of a call on the wrapper.
CacheCall(Op, CacheKey, InData, bPutEvenIfExists, Outcome) ==
    [Op |-> Op,
     CacheKey |-> CacheKey,
     InData |-> InData,
     bPutEvenIfExists |-> bPutEvenIfExists,
     bWritable |-> InnerBackend.bWritable,
     NewKey |-> ShortenKey(CacheKey, MaxKeyLength).Result,
     Held |-> HeldUnder(InnerBackend, ShortenKey(CacheKey, MaxKeyLength).Result),
     HeldAfter |-> HeldUnder(Outcome.Backend, ShortenKey(CacheKey, MaxKeyLength).Result),
     InnerCalls |-> Outcome.InnerCalls,
     Result |-> Outcome.Result,
     OutData |-> Outcome.OutData]

\* A failed check() ends the process where checks are compiled in.
CheckPasses(CacheKey) == bDoCheck => ShortenKey(CacheKey, MaxKeyLength).bCheck

Called(Op, CacheKey, InData, bPutEvenIfExists, Outcome) ==
    /\ InnerBackend' = Outcome.Backend
    /\ CacheCalls' = Append(CacheCalls, CacheCall(Op, CacheKey, InData, bPutEvenIfExists, Outcome))
    /\ UNCHANGED <<MaxKeyLength, bDoCheck, NodeVars, NameVars, ViewVars>>

CallCachedDataProbablyExists ==
    /\ Len(CacheCalls) < MaxCacheCalls
    /\ \E CacheKey \in CacheKeys :
           /\ CheckPasses(CacheKey)
           /\ Called("CachedDataProbablyExists", CacheKey, <<>>, FALSE,
                     ProbeCachedData("CachedDataProbablyExists", InnerBackend, CacheKey, MaxKeyLength))

CallTryToPrefetch ==
    /\ Len(CacheCalls) < MaxCacheCalls
    /\ \E CacheKey \in CacheKeys :
           /\ CheckPasses(CacheKey)
           /\ Called("TryToPrefetch", CacheKey, <<>>, FALSE,
                     ProbeCachedData("TryToPrefetch", InnerBackend, CacheKey, MaxKeyLength))

CallWouldCache ==
    /\ Len(CacheCalls) < MaxCacheCalls
    /\ \E CacheKey \in CacheKeys, InData \in CacheData :
           Called("WouldCache", CacheKey, InData, FALSE,
                  WouldCache(InnerBackend, CacheKey, MaxKeyLength))

CallGetCachedData ==
    /\ Len(CacheCalls) < MaxCacheCalls
    /\ \E CacheKey \in CacheKeys :
           /\ CheckPasses(CacheKey)
           /\ Called("GetCachedData", CacheKey, <<>>, FALSE,
                     GetCachedData(InnerBackend, CacheKey, MaxKeyLength))

CallPutCachedData ==
    /\ Len(CacheCalls) < MaxCacheCalls
    /\ \E CacheKey \in CacheKeys, InData \in CacheData, bPutEvenIfExists \in BOOLEAN :
           /\ InnerBackend.bWritable => CheckPasses(CacheKey)
           /\ Called("PutCachedData", CacheKey, InData, bPutEvenIfExists,
                     PutCachedData(InnerBackend, CacheKey, InData, bPutEvenIfExists, MaxKeyLength))

CallRemoveCachedData ==
    /\ Len(CacheCalls) < MaxCacheCalls
    /\ \E CacheKey \in CacheKeys :
           /\ InnerBackend.bWritable => CheckPasses(CacheKey)
           /\ Called("RemoveCachedData", CacheKey, <<>>, FALSE,
                     RemoveCachedData(InnerBackend, CacheKey, MaxKeyLength))

CacheNext ==
    \/ CallCachedDataProbablyExists
    \/ CallTryToPrefetch
    \/ CallWouldCache
    \/ CallGetCachedData
    \/ CallPutCachedData
    \/ CallRemoveCachedData

CacheSpec == CacheInit /\ [][CacheNext]_vars

(***************************************************************************)
(* Properties of the keys passed to the inner backend                      *)
(***************************************************************************)
\* The keys a recorded call passed to the inner backend.
InnerKeys(Call) == {Call.InnerCalls[j].Key : j \in DOMAIN Call.InnerCalls}

\* C24: in every operation (exists, prefetch, would-cache, get, put, remove)
\* the key passed to the inner backend is no longer than MaxKeyLength: a key
\* no longer than MaxKeyLength is passed unchanged, and a longer key is
\* replaced by a key of length exactly MaxKeyLength, for every MaxKeyLength.
C24_InnerKeyWithinMaxKeyLength ==
    \A i \in DOMAIN CacheCalls :
        \A Key \in InnerKeys(CacheCalls[i]) :
            /\ Len(Key) <= MaxKeyLength
            /\ Len(CacheCalls[i].CacheKey) <= MaxKeyLength => Key = CacheCalls[i].CacheKey
            /\ Len(CacheCalls[i].CacheKey) > MaxKeyLength => Len(Key) = MaxKeyLength

\* WouldCache has passed a key longer than MaxKeyLength to the inner backend,
\* where MaxKeyLength has room for the digest.
C24_WouldCachePassesLongKey ==
    /\ MaxKeyLength >= HashStringSize + 2
    /\ \E i \in DOMAIN CacheCalls :
           /\ CacheCalls[i].Op = "WouldCache"
           /\ Len(CacheCalls[i].CacheKey) > MaxKeyLength
           /\ CacheCalls[i].CacheKey \in InnerKeys(CacheCalls[i])

(***************************************************************************)
(* Properties of the round trip through the inner backend                  *)
(***************************************************************************)
\* A recorded call on a key that is longer than MaxKeyLength.
OnLongKey(Call) == Len(Call.CacheKey) > MaxKeyLength

\* Call i is a PutCachedData on a writable inner backend and call i + 1 a
\* GetCachedData with the same long key.
PutThenGet(i) ==
    /\ i \in DOMAIN CacheCalls
    /\ i + 1 \in DOMAIN CacheCalls
    /\ CacheCalls[i].Op = "PutCachedData"
    /\ CacheCalls[i].bWritable
    /\ CacheCalls[i].InData # <<>>
    /\ OnLongKey(CacheCalls[i])
    /\ CacheCalls[i + 1].Op = "GetCachedData"
    /\ CacheCalls[i + 1].CacheKey = CacheCalls[i].CacheKey

\* The GetCachedData found, under the shortened key, a payload that is shorter
\* than the full key or ends in another full key.
FoundForeignPayload(Call) ==
    /\ Call.Op = "GetCachedData"
    /\ OnLongKey(Call)
    /\ Call.Held # <<>>
    /\ LET Found == Call.Held[1]
           KeyLen == Len(Call.CacheKey) + 1
       IN  \/ Len(Found) < KeyLen
           \/ SubSeq(Found, Len(Found) - KeyLen + 1, Len(Found)) # KeyBytes(Call.CacheKey)

Rejected(Call) ==
    /\ ~Call.Result
    /\ Call.OutData = <<>>
    /\ InnerCall("RemoveCachedData", Call.NewKey) \in
           {Call.InnerCalls[j] : j \in DOMAIN Call.InnerCalls}

\* C26: for a key longer than MaxKeyLength and non-empty data, PutCachedData
\* on a writable inner backend followed by GetCachedData with the same key
\* returns true with exactly the data that was put; and whenever the payload
\* found under the shortened key is shorter than the full key or ends in a
\* different full key, GetCachedData returns false with empty OutData and
\* removes that entry from the inner backend.
C26_PutThenGetReturnsData ==
    /\ \A i \in DOMAIN CacheCalls :
           PutThenGet(i) =>
               /\ CacheCalls[i + 1].Result
               /\ CacheCalls[i + 1].OutData = CacheCalls[i].InData
    /\ \A i \in DOMAIN CacheCalls :
           FoundForeignPayload(CacheCalls[i]) =>
               /\ Rejected(CacheCalls[i])
               /\ CacheCalls[i].HeldAfter = <<>>

\* C26, amended: the round trip returns the data when the inner backend
\* stored the put, that is when it held nothing under the shortened key or
\* bPutEvenIfExists was set; a foreign payload is rejected and its removal is
\* asked of the inner backend, which removes it when it is writable.
C26_StoredPutThenGetReturnsData ==
    /\ \A i \in DOMAIN CacheCalls :
           (PutThenGet(i) /\ (CacheCalls[i].bPutEvenIfExists \/ CacheCalls[i].Held = <<>>)) =>
               /\ CacheCalls[i + 1].Result
               /\ CacheCalls[i + 1].OutData = CacheCalls[i].InData
    /\ \A i \in DOMAIN CacheCalls :
           FoundForeignPayload(CacheCalls[i]) =>
               /\ Rejected(CacheCalls[i])
               /\ CacheCalls[i].bWritable => CacheCalls[i].HeldAfter = <<>>

\* A put over an entry of a colliding key has replaced it and the get has
\* returned the data without the appended key.
C26_Witness ==
    /\ PutThenGet(1)
    /\ CacheCalls[1].Held # <<>>
    /\ FoundForeignPayload([CacheCalls[1] EXCEPT !.Op = "GetCachedData"])
    /\ CacheCalls[1].bPutEvenIfExists
    /\ CacheCalls[2].Result
    /\ CacheCalls[2].OutData = CacheCalls[1].InData
    /\ CacheCalls[2].HeldAfter = <<CacheCalls[1].InData \o KeyBytes(CacheCalls[1].CacheKey)>>

(***************************************************************************)
(* Initial states and actions of the searchable tree view                  *)
(***************************************************************************)
\* The number of ticks that are recorded.
MaxTicks == 2

Leaf(Name) == TreeItem(Name, <<>>)

\* The item lists the owner of the view holds, and the texts of the search
\* box.
ItemLists ==
    {<<>>,
     <<Leaf(<<"a">>), Leaf(<<"b">>)>>,
     <<TreeItem(<<"g">>, <<Leaf(<<"a", "b">>)>>), Leaf(<<"b">>)>>}

FilterTexts == {<<>>, <<"a">>, <<"b">>}

\* Construct (lines 39-78)
ViewInit ==
    /\ NodeIdle
    /\ NameIdle
    /\ CacheIdle
    /\ bNeedsRefresh = TRUE
    /\ bNeedsFocus = TRUE
    /\ Items \in ItemLists
    /\ FilterText = <<>>
    /\ FilteredItems = <<>>
    /\ Requested = {"Construct"}
    /\ Ticks = <<>>

Tick ==
    /\ Len(Ticks) < MaxTicks
    /\ LET Outcome == TickOutcome(bNeedsRefresh, bNeedsFocus, Items, FilterText, FilteredItems)
       IN  /\ bNeedsRefresh' = Outcome.bNeedsRefresh
           /\ bNeedsFocus' = Outcome.bNeedsFocus
           /\ FilteredItems' = Outcome.FilteredItems
           /\ Ticks' = Append(Ticks, [Requested |-> Requested,
                                      Items |-> Items,
                                      FilterText |-> FilterText,
                                      FilteredBefore |-> FilteredItems,
                                      bPopulated |-> Outcome.bPopulated,
                                      bFocused |-> Outcome.bFocused,
                                      FilteredItems |-> Outcome.FilteredItems,
                                      Expanded |-> Outcome.Expanded])
    /\ Requested' = {}
    /\ UNCHANGED <<Items, FilterText, NodeVars, NameVars, CacheVars>>

\* Refresh (lines 96-99)
Refresh ==
    /\ bNeedsRefresh' = TRUE
    /\ Requested' = Requested \cup {"Refresh"}
    /\ UNCHANGED <<bNeedsFocus, Items, FilterText, FilteredItems, Ticks>>
    /\ UNCHANGED <<NodeVars, NameVars, CacheVars>>

\* Focus (lines 102-105)
Focus ==
    /\ bNeedsFocus' = TRUE
    /\ Requested' = Requested \cup {"Focus"}
    /\ UNCHANGED <<bNeedsRefresh, Items, FilterText, FilteredItems, Ticks>>
    /\ UNCHANGED <<NodeVars, NameVars, CacheVars>>

\* OnFilterTextChanged (lines 162-166)
OnFilterTextChanged ==
    \E Text \in FilterTexts :
        /\ FilterText' = Text
        /\ bNeedsRefresh' = TRUE
        /\ Requested' = Requested \cup {"OnFilterTextChanged"}
        /\ UNCHANGED <<bNeedsFocus, Items, FilteredItems, Ticks>>
        /\ UNCHANGED <<NodeVars, NameVars, CacheVars>>

\* ClearSearchBox (lines 108-111): the search box reports the change of its
\* text.
ClearSearchBox ==
    /\ FilterText # <<>>
    /\ FilterText' = <<>>
    /\ bNeedsRefresh' = TRUE
    /\ Requested' = Requested \cup {"OnFilterTextChanged"}
    /\ UNCHANGED <<bNeedsFocus, Items, FilteredItems, Ticks>>
    /\ UNCHANGED <<NodeVars, NameVars, CacheVars>>

\* The owner of the item list changes it; the view holds a pointer to it.
ItemsChanged ==
    /\ \E ItemList \in ItemLists \ {Items} : Items' = ItemList
    /\ UNCHANGED <<bNeedsRefresh, bNeedsFocus, FilterText, FilteredItems, Requested, Ticks>>
    /\ UNCHANGED <<NodeVars, NameVars, CacheVars>>

ViewNext ==
    \/ Tick
    \/ Refresh
    \/ Focus
    \/ OnFilterTextChanged
    \/ ClearSearchBox
    \/ ItemsChanged

ViewSpec == ViewInit /\ [][ViewNext]_vars

(***************************************************************************)
(* Properties of the deferred refresh and focus                            *)
(***************************************************************************)
\* What a recorded tick did, given the calls that ask for a rebuild and the
\* calls that ask for the focus: it rebuilt FilteredItems from the item list
\* exactly if a rebuild was asked for since the tick before, left it alone
\* otherwise, and gave the focus exactly if the focus was asked for.
TickAnswers(T, RebuildCalls, FocusCalls) ==
    /\ T.bPopulated <=> (T.Requested \cap RebuildCalls # {})
    /\ T.bPopulated => T.FilteredItems = Populate(T.Items, T.FilterText).FilteredItems
    /\ ~T.bPopulated => T.FilteredItems = T.FilteredBefore
    /\ T.bFocused <=> (T.Requested \cap FocusCalls # {})

\* C27: a call to Refresh (or a filter text change) causes the next Tick to
\* rebuild FilteredItems from the item list exactly once, and Ticks with no
\* intervening Refresh or filter change do not rebuild it; likewise Focus
\* causes exactly the next Tick to give keyboard focus to the search box.
C27_TickRebuildsOnRequestOnly ==
    \A k \in DOMAIN Ticks :
        TickAnswers(Ticks[k], {"Refresh", "OnFilterTextChanged"}, {"Focus"})

\* C27, amended: Construct asks for a rebuild and for the focus as Refresh and
\* Focus do, so the first Tick of a view rebuilds and gives the focus.
C27_TickRebuildsOnRequestOrConstruct ==
    /\ \A k \in DOMAIN Ticks :
           TickAnswers(Ticks[k], {"Construct", "Refresh", "OnFilterTextChanged"},
                       {"Construct", "Focus"})
    /\ bNeedsRefresh <=> (Requested \cap {"Construct", "Refresh", "OnFilterTextChanged"} # {})
    /\ bNeedsFocus <=> (Requested \cap {"Construct", "Focus"} # {})

\* The first tick has rebuilt and focused, and the second tick, after a
\* change of the filter text alone, has rebuilt to other items, expanded a
\* parent and left the focus alone.
C27_Witness ==
    /\ Len(Ticks) = 2
    /\ Ticks[1].Requested = {"Construct"}
    /\ Ticks[2].Requested = {"OnFilterTextChanged"}
    /\ Ticks[2].bPopulated
    /\ ~Ticks[2].bFocused
    /\ Ticks[2].FilteredItems # Ticks[2].FilteredBefore
    /\ Ticks[2].Expanded # {}
    /\ FilteredItems = Ticks[2].FilteredItems

====
